---- MODULE Spec2Model ----
(***************************************************************************)
(* A model of the Loom backend core: the LLM router (provider resolution,  *)
(* single-shot chat, streaming chat), the structured-output recovery       *)
(* (_extract_json, _fallback_response), the provider request builders and  *)
(* the sidebar-refresh endpoint.                                           *)
(*                                                                         *)
(* Texts are sequences of characters (one-character strings), so that      *)
(* prefixes, fences, whitespace and JSON syntax are computed and not       *)
(* assumed.                                                                *)
(***************************************************************************)
EXTENDS Integers, Sequences, FiniteSets, TLC

(***************************************************************************)
(* Bounds of the model.                                                    *)
(***************************************************************************)
\* A provider text is a concatenation of at most MaxSegs segments.
MaxSegs == 4

\* A streaming transport delivers at most MaxChunks chunks.
MaxChunks == 3

\* A conversation has at most MaxTurns turns, over as many turn objects.
MaxTurns == 3

\* A request carries at most MaxAtts attachments.
MaxAtts == 2

\* At most MaxCalls chat calls return, and a caller grows a concepts list to
\* at most MaxConcepts entries.
MaxCalls == 3

MaxConcepts == 2

\* At most MaxUses provider clients are created after the services were
\* constructed.
MaxUses == 2

\* The longest candidate list passed to rank_by_similarity.
MaxCands == 3

\* At most MaxEmbeds calls of embed_text.
MaxEmbeds == 2

MaxUpdates == 2

(***************************************************************************)
(* Characters and Python's str operations.                                 *)
(***************************************************************************)
\* Python's None, as a value that is no text (no character is "None").
None == <<"None">>

QUOTE == "\""

BACKSLASH == "\\"

NEWLINE == "\n"

\* str.strip(), the regex class \s and JSON's whitespace agree on these.
Whitespace == {" ", "\n", "\t", "\r"}

Digits == {"0", "1", "2", "3", "4", "5", "6", "7", "8", "9"}

HexDigits == Digits \cup {"a", "b", "c", "d", "e", "f", "A", "B", "C", "D", "E", "F"}

\* s[i:] of Python, 1-based: the characters from position i on.
From(s, i) == SubSeq(s, i, Len(s))

\* s[i:i+len(p)] == p
HasAt(s, i, p) ==
    /\ i >= 1
    /\ i + Len(p) - 1 <= Len(s)
    /\ SubSeq(s, i, i + Len(p) - 1) = p

\* str.startswith
StartsWith(s, p) == HasAt(s, 1, p)

\* The first position >= i where p occurs in s, 0 when there is none
\* (str.find, and the leftmost match of a literal in a regex search).
Find(s, p, i) ==
    LET hits == {k \in i..(Len(s) - Len(p) + 1) : HasAt(s, k, p)}
    IN  IF hits = {} THEN 0 ELSE CHOOSE k \in hits : \A m \in hits : k <= m

\* The first position >= i that holds no whitespace (regex \s*, greedy).
RECURSIVE SkipWs(_, _)
SkipWs(s, i) ==
    IF i <= Len(s) /\ s[i] \in Whitespace THEN SkipWs(s, i + 1) ELSE i

\* The last position <= i that holds no whitespace, 0 when there is none.
RECURSIVE SkipWsBack(_, _)
SkipWsBack(s, i) ==
    IF i >= 1 /\ s[i] \in Whitespace THEN SkipWsBack(s, i - 1) ELSE i

\* str.strip()
Strip(s) == SubSeq(s, SkipWs(s, 1), SkipWsBack(s, Len(s)))

\* str.replace(old, new): leftmost, non-overlapping.
RECURSIVE Replace(_, _, _)
Replace(s, old, new) ==
    IF s = <<>> THEN <<>>
    ELSE IF StartsWith(s, old) THEN new \o Replace(From(s, Len(old) + 1), old, new)
    ELSE <<s[1]>> \o Replace(Tail(s), old, new)

\* `not text` of Python for a text or None.
Falsy(t) == t = None \/ t = <<>>

(***************************************************************************)
(* json.loads, as the standard library's decoder scans a document.  A      *)
(* scan returns the position after the value it read, or 0 when it fails.  *)
(***************************************************************************)
\* The characters that may follow a backslash in a JSON string.
Escapes == {"\"", "\\", "/", "b", "f", "n", "r", "t"}

\* strict=True: no control character inside a string.
ControlChars == {"\n", "\t", "\r"}

\* scanstring: s[i] is the first character after the opening quote.
RECURSIVE ScanString(_, _)
ScanString(s, i) ==
    IF i > Len(s) THEN 0
    ELSE IF s[i] = QUOTE THEN i + 1
    ELSE IF s[i] = BACKSLASH THEN
        IF i + 1 > Len(s) THEN 0
        ELSE IF s[i + 1] \in Escapes THEN ScanString(s, i + 2)
        ELSE IF /\ s[i + 1] = "u"
                /\ i + 5 <= Len(s)
                /\ \A k \in (i + 2)..(i + 5) : s[k] \in HexDigits
             THEN ScanString(s, i + 6)
        ELSE 0
    ELSE IF s[i] \in ControlChars THEN 0
    ELSE ScanString(s, i + 1)

RECURSIVE SkipDigits(_, _)
SkipDigits(s, i) ==
    IF i <= Len(s) /\ s[i] \in Digits THEN SkipDigits(s, i + 1) ELSE i

\* NUMBER_RE of json.scanner: an integer part, then an optional fraction and
\* an optional exponent.
ScanNumber(s, i) ==
    LET j == IF i <= Len(s) /\ s[i] = "-" THEN i + 1 ELSE i
        intEnd == IF j > Len(s) \/ s[j] \notin Digits THEN 0
                  ELSE IF s[j] = "0" THEN j + 1
                  ELSE SkipDigits(s, j)
        fracEnd == IF /\ intEnd + 1 <= Len(s)
                      /\ s[intEnd] = "."
                      /\ s[intEnd + 1] \in Digits
                   THEN SkipDigits(s, intEnd + 1)
                   ELSE intEnd
        signEnd == IF /\ fracEnd + 1 <= Len(s)
                      /\ s[fracEnd + 1] \in {"+", "-"}
                   THEN fracEnd + 2
                   ELSE fracEnd + 1
        expEnd == IF /\ fracEnd <= Len(s)
                     /\ s[fracEnd] \in {"e", "E"}
                     /\ signEnd <= Len(s)
                     /\ s[signEnd] \in Digits
                  THEN SkipDigits(s, signEnd)
                  ELSE fracEnd
    IN  IF intEnd = 0 THEN 0 ELSE expEnd

LitNull == <<"n", "u", "l", "l">>

LitTrue == <<"t", "r", "u", "e">>

LitFalse == <<"f", "a", "l", "s", "e">>

\* The kind of JSON value that starts with character c.
KindOf(c) ==
    IF c = "{" THEN "object"
    ELSE IF c = "[" THEN "array"
    ELSE IF c = QUOTE THEN "string"
    ELSE IF c \in Digits \cup {"-"} THEN "number"
    ELSE "literal"

RECURSIVE ScanValue(_, _), ScanMembers(_, _), ScanElements(_, _)
\* scan_once: the value starting at s[i].
ScanValue(s, i) ==
    IF i > Len(s) THEN 0
    ELSE IF s[i] = QUOTE THEN ScanString(s, i + 1)
    ELSE IF s[i] = "{" THEN
        LET j == SkipWs(s, i + 1)
        IN  IF j > Len(s) THEN 0
            ELSE IF s[j] = "}" THEN j + 1
            ELSE ScanMembers(s, j)
    ELSE IF s[i] = "[" THEN
        LET j == SkipWs(s, i + 1)
        IN  IF j > Len(s) THEN 0
            ELSE IF s[j] = "]" THEN j + 1
            ELSE ScanElements(s, j)
    ELSE IF HasAt(s, i, LitNull) THEN i + 4
    ELSE IF HasAt(s, i, LitTrue) THEN i + 4
    ELSE IF HasAt(s, i, LitFalse) THEN i + 5
    ELSE ScanNumber(s, i)

\* JSONObject: a "key": value pair is expected at s[i].
ScanMembers(s, i) ==
    IF i > Len(s) \/ s[i] # QUOTE THEN 0
    ELSE
        LET k == ScanString(s, i + 1)
            c == IF k = 0 THEN 0 ELSE SkipWs(s, k)
            v == IF c = 0 \/ c > Len(s) \/ s[c] # ":" THEN 0
                 ELSE ScanValue(s, SkipWs(s, c + 1))
            m == IF v = 0 THEN 0 ELSE SkipWs(s, v)
        IN  IF m = 0 \/ m > Len(s) THEN 0
            ELSE IF s[m] = "}" THEN m + 1
            ELSE IF s[m] = "," THEN ScanMembers(s, SkipWs(s, m + 1))
            ELSE 0

\* JSONArray: an element is expected at s[i].
ScanElements(s, i) ==
    LET v == ScanValue(s, i)
        m == IF v = 0 THEN 0 ELSE SkipWs(s, v)
    IN  IF m = 0 \/ m > Len(s) THEN 0
        ELSE IF s[m] = "]" THEN m + 1
        ELSE IF s[m] = "," THEN ScanElements(s, SkipWs(s, m + 1))
        ELSE 0

\* A JSON value is kept as its kind and its source text.
JsonValue(kind, src) == [kind |-> kind, src |-> src]

\* The outcome of a parse: a value, or a JSONDecodeError.
ParseOk(v) == [ok |-> TRUE, value |-> v]

ParseError == [ok |-> FALSE, value |-> JsonValue("none", <<>>)]

\* json.loads(s): one value, whitespace around it, nothing else.
JsonLoads(s) ==
    LET b == SkipWs(s, 1)
        e == ScanValue(s, b)
    IN  IF e = 0 \/ SkipWs(s, e) # Len(s) + 1 THEN ParseError
        ELSE ParseOk(JsonValue(KindOf(s[b]), SubSeq(s, b, e - 1)))

(***************************************************************************)
(* Structured-output recovery: _extract_json and _fallback_response.       *)
(***************************************************************************)
\* The backtick, which a TLA+ string cannot hold, is written by name.
BACKTICK == "backtick"

FENCE == <<BACKTICK, BACKTICK, BACKTICK>>

TagJson == <<"j", "s", "o", "n">>

\* The ValueError message of _extract_json shows text[:200].
ShownChars == 200

NoMatch == [found |-> FALSE, group |-> <<>>]

Match(g) == [found |-> TRUE, group |-> g]

\* The fence pattern of line 15, searched with re.DOTALL: the opening fence
\* is the leftmost one, the json tag and the whitespace after it are taken
\* greedily (they hold no backtick), and the lazy group ends at the next
\* fence.
FenceSearch(s) ==
    LET i == Find(s, FENCE, 1)
        a == i + Len(FENCE)
        b == IF HasAt(s, a, TagJson) THEN a + Len(TagJson) ELSE a
        c == SkipWs(s, b)
        j == Find(s, FENCE, c)
    IN  IF i = 0 \/ j = 0 THEN NoMatch ELSE Match(SubSeq(s, c, j - 1))

\* The last position <= i of character ch in s, 0 when there is none.
FindLast(s, ch, i) ==
    LET hits == {k \in 1..i : s[k] = ch}
    IN  IF hits = {} THEN 0 ELSE CHOOSE k \in hits : \A m \in hits : k >= m

\* The greedy brace pattern of line 21: from the first opening brace to the
\* last closing brace.
BraceSearch(s) ==
    LET p == Find(s, <<"{">>, 1)
        q == FindLast(s, "}", Len(s))
    IN  IF p = 0 \/ q < p THEN NoMatch ELSE Match(SubSeq(s, p, q))

\* What _extract_json does: return a value, or raise one of two ValueErrors.
\* tries counts the json.loads calls it made.
Extracted(v) == [status |-> "ok", value |-> v, shown |-> <<>>, tries |-> 1]

EmptyResponse ==
    [status |-> "empty", value |-> JsonValue("none", <<>>), shown |-> <<>>, tries |-> 0]

Unparseable(t) ==
    [status |-> "unparseable", value |-> JsonValue("none", <<>>),
     shown |-> SubSeq(t, 1, IF Len(t) < ShownChars THEN Len(t) ELSE ShownChars),
     tries |-> 1]

\* Lines 14-17: the text that is parsed, the fence interior when a fence matches.
Candidate(text) ==
    LET t == Strip(text)
        fence_match == FenceSearch(t)
    IN  IF fence_match.found THEN Strip(fence_match.group) ELSE t

\* The only element of a one-element set: binds a computed text once.
The(S) == CHOOSE x \in S : TRUE

\* Lines 18-27: the parse attempts on the candidate text t.
ParseCandidate(t) ==
    LET whole == JsonLoads(t)
        json_match == BraceSearch(t)
        span == JsonLoads(json_match.group)
    IN  IF whole.ok THEN Extracted(whole.value)
        ELSE IF json_match.found /\ span.ok
             THEN [Extracted(span.value) EXCEPT !.tries = @ + 1]
        ELSE IF json_match.found THEN [Unparseable(t) EXCEPT !.tries = @ + 1]
        ELSE Unparseable(t)

\* _extract_json without lines 12-13.
ExtractJsonUnchecked(text) == The({ParseCandidate(t) : t \in {Candidate(text)}})

\* _extract_json(text), text a str.
ExtractJson(text) ==
    IF text = <<>> \/ Strip(text) = <<>> THEN EmptyResponse
    ELSE The({ParseCandidate(t) : t \in {Candidate(text)}})

\* _FALLBACK
FALLBACK ==
    [response |-> <<>>,
     topic |-> [name |-> <<>>, matchedExistingId |-> None, confidence |-> 0],
     concepts |-> <<>>]

RespKey == <<"\"", "r", "e", "s", "p", "o", "n", "s", "e", "\"">>

\* The group of the response pattern from s[i], characters other than quote
\* and backslash or a backslash with the character after it, up to a quote:
\* the position of that closing quote, 0 when the text ends first.
RECURSIVE ScanBody(_, _)
ScanBody(s, i) ==
    IF i > Len(s) THEN 0
    ELSE IF s[i] = QUOTE THEN i
    ELSE IF s[i] = BACKSLASH THEN
        IF i + 1 <= Len(s) THEN ScanBody(s, i + 2) ELSE 0
    ELSE ScanBody(s, i + 1)

\* The response pattern matched at s[i]: the quoted key, whitespace, a colon,
\* whitespace, an opening quote, the group, a closing quote.
RespMatchAt(s, i) ==
    LET c == SkipWs(s, i + Len(RespKey))
        d == SkipWs(s, c + 1)
        e == ScanBody(s, d + 1)
    IN  IF /\ HasAt(s, i, RespKey)
           /\ c <= Len(s) /\ s[c] = ":"
           /\ d <= Len(s) /\ s[d] = QUOTE
           /\ e # 0
        THEN Match(SubSeq(s, d + 1, e - 1))
        ELSE NoMatch

\* re.search of that pattern: the leftmost position where it matches.
RECURSIVE RespSearch(_, _)
RespSearch(s, i) ==
    LET k == Find(s, RespKey, i)
    IN  IF k = 0 THEN NoMatch
        ELSE IF RespMatchAt(s, k).found THEN RespMatchAt(s, k)
        ELSE RespSearch(s, k + 1)

\* The two str.replace calls on m.group(1): backslash-n becomes a newline,
\* then backslash-quote becomes a quote.
Unescape(g) ==
    Replace(Replace(g, <<BACKSLASH, "n">>, <<NEWLINE>>), <<BACKSLASH, QUOTE>>, <<QUOTE>>)

\* A fallback that skips the salvage of the response key.
FallbackRawOnly(raw) == [FALLBACK EXCEPT !.response = raw]

\* _fallback_response(raw)
FallbackResponse(raw) ==
    LET m == RespSearch(raw, 1)
        text == IF m.found THEN Unescape(m.group) ELSE raw
    IN  [FALLBACK EXCEPT !.response = text]

\* `response.text or ""` and `message.content or ""`.
Content(raw) == IF Falsy(raw) THEN <<>> ELSE raw

\* The try block was not run (json_mode is false, or no response arrived).
NotParsed ==
    [status |-> "not run", value |-> JsonValue("none", <<>>), shown |-> <<>>, tries |-> 0]

\* What the try block of an adapter did with the content.
TryExtract(raw, json_mode) ==
    IF json_mode THEN ExtractJson(Content(raw)) ELSE NotParsed

\* A handler that names json.JSONDecodeError alone: _extract_json raises
\* plain ValueErrors, so it catches neither failure.
CaughtDecodeErrorOnly(status) == FALSE

\* except (ValueError, json.JSONDecodeError): both failures of _extract_json
\* are ValueErrors, and both are caught.
Caught(status) == status \in {"empty", "unparseable"}

Returned(v) == [raised |-> "none", value |-> v]

Raised(e) == [raised |-> e, value |-> [response |-> None]]

\* Lines 153-159 and 176-182: what an adapter does with the text of a
\* successful provider call (None when the provider sent no text), tried
\* being what its try block did.
Respond(tried, raw, json_mode) ==
    IF json_mode THEN
        IF tried.status = "ok" THEN Returned(tried.value)
        ELSE IF Caught(tried.status) THEN Returned(FallbackResponse(Content(raw)))
        ELSE Raised(tried.status)
    ELSE Returned([response |-> Content(raw)])

ChatResult(raw, json_mode) == Respond(TryExtract(raw, json_mode), raw, json_mode)

(***************************************************************************)
(* The texts a provider returns in this model: every concatenation of at   *)
(* most MaxSegs of these segments.                                         *)
(***************************************************************************)
SegObject == <<"{", "\"", "k", "\"", ":", "1", "}">>

SegQuote == <<"\"">>

SegSpace == <<" ", "\n">>

SegNumber == <<"4">>

SegResponse ==
    <<"\"", "r", "e", "s", "p", "o", "n", "s", "e", "\"", ":", "\"",
      "a", "\\", "n", "b", "\\", "\"", "c", "\"">>

Segments == {SegObject, FENCE, SegQuote, SegSpace, SegNumber, TagJson, SegResponse}

RECURSIVE Concat(_)
Concat(ss) == IF ss = <<>> THEN <<>> ELSE Head(ss) \o Concat(Tail(ss))

Texts == {Concat(ss) : ss \in UNION {[1..n -> Segments] : n \in 0..MaxSegs}}

\* The provider texts of the router specification: one segment at most, and
\* no text.
SampleReplies == {Concat(<<sg>>) : sg \in Segments} \cup {<<>>, None}

AllReplies == Texts \cup {None}

\* Texts longer than the ShownChars characters an error message shows.
Padding == [i \in 1..ShownChars |-> "x"]

LongReplies ==
    {Padding \o SegNumber,
     SegSpace \o Padding \o SegQuote \o SegSpace,
     Padding \o SegObject,
     Padding \o <<"{">> \o SegQuote \o <<"}">>,
     FENCE \o Padding \o <<"}">> \o FENCE \o SegNumber}

(***************************************************************************)
(* The LLM router: construction, provider resolution, chat, chat_stream.   *)
(***************************************************************************)
VARIABLES
    op,         \* the router operation invoked: "chat" or "chat_stream"
    provider,   \* self.provider, set by the constructor
    model,      \* the model argument: None, or a model id
    json_mode,  \* the json_mode argument of chat
    pc,         \* "idle", "awaiting", "streaming", "completed" or "failed"
    target,     \* the provider _resolve_provider returned
    calls,      \* the provider calls issued so far
    reply,      \* the text of the provider's response
    parsed,     \* what _extract_json did with it
    result,     \* the value returned to the caller
    error,      \* the error raised to the caller
    received,   \* the chunks the transport has delivered to the stream
    yielded     \* the deltas the stream has yielded

routerVars ==
    <<op, provider, model, json_mode, pc, target, calls, reply, parsed,
      result, error, received, yielded>>

DEFAULT_MODEL ==
    <<"g", "e", "m", "i", "n", "i", "-", "2", ".", "5", "-", "f", "l", "a", "s", "h">>

GptPrefix == <<"g", "p", "t", "-">>

GeminiPrefix == <<"g", "e", "m", "i", "n", "i", "-">>

KnownProviders == {"openai", "gemini"}

ModelGpt == <<"g", "p", "t", "-", "4">>

ModelGptNoDash == <<"g", "p", "t">>

ModelClaude == <<"c", "l", "a", "u", "d", "e">>

\* The model arguments: none, an empty id, ids with and without the prefixes.
Models == {None, <<>>, ModelGpt, ModelGptNoDash, ModelClaude, DEFAULT_MODEL}

\* LLMRouter.__init__: `provider or os.getenv("LLM_PROVIDER", "gemini")`.
\* arg is "" for a falsy argument; env is <<>> when the variable is unset
\* and <<v>> when it is set to v.
ConfiguredProvider(arg, env) ==
    IF arg # "" THEN arg
    ELSE IF env = <<>> THEN "gemini"
    ELSE env[1]

\* A router without a default model: the argument is used as it is given.
EffectiveModelAsGiven(m) == m

\* `model or DEFAULT_MODEL`
EffectiveModel(m) == IF Falsy(m) THEN DEFAULT_MODEL ELSE m

\* A resolution that lets the configured provider win over the prefix.
ResolveConfiguredFirst(configured, m) ==
    IF configured \in KnownProviders THEN configured
    ELSE IF StartsWith(m, GptPrefix) THEN "openai"
    ELSE IF StartsWith(m, GeminiPrefix) THEN "gemini"
    ELSE configured

\* The module's other resolver, _route_provider: everything that is not
\* gpt- goes to Gemini.
RouteProvider(configured, m) ==
    IF StartsWith(m, GptPrefix) THEN "openai" ELSE "gemini"

\* LLMRouter._resolve_provider
ResolveProvider(configured, m) ==
    IF StartsWith(m, GptPrefix) THEN "openai"
    ELSE IF StartsWith(m, GeminiPrefix) THEN "gemini"
    ELSE IF configured \in KnownProviders THEN configured
    ELSE configured

\* A provider call: the adapter that issued it and the model it names.
Call(adapter, m) == [provider |-> adapter, model |-> m]

\* The dispatch of chat (lines 129-136) and of chat_stream (lines 195-204):
\* the adapter issues its provider call, or the model cannot be routed.
Dispatch(operation, configured, m, issued) ==
    LET resolved == ResolveProvider(configured, EffectiveModel(m))
    IN  IF resolved = "openai" \/ resolved = "gemini"
        THEN [pc |-> IF operation = "chat" THEN "awaiting" ELSE "streaming",
              target |-> resolved,
              calls |-> Append(issued, Call(resolved, EffectiveModel(m))),
              error |-> "none"]
        ELSE [pc |-> "failed", target |-> resolved, calls |-> issued,
              error |-> "UnroutableModel"]

\* A failure handler that issues the same call once more.
OnProviderErrorRetry(adapter, issued) ==
    IF Len(issued) < 2
    THEN [pc |-> "awaiting", calls |-> Append(issued, issued[Len(issued)]),
          error |-> "none"]
    ELSE [pc |-> "failed", calls |-> issued, error |-> "ProviderError"]

\* A provider call that fails (lines 152 and 173: the await stands in no try
\* block): the failure reaches the caller.
OnProviderError(adapter, issued) ==
    [pc |-> "failed", calls |-> issued, error |-> "ProviderError"]

NoResult == [response |-> None]

(***************************************************************************)
(* The chunks of a streaming transport.  An optional attribute is a        *)
(* sequence of no or one element.                                          *)
(***************************************************************************)
ChunkTexts == {None, <<>>, <<"a">>, <<"b">>}

\* Gemini: a chunk has a text, which may be None or empty.
GeminiChunks == {[text |-> t] : t \in ChunkTexts}

\* OpenAI: a chunk has a list of choices, which may be empty; a choice has a
\* delta, which may be None; a delta has a content, which may be None or empty.
OpenAIDeltas == {<<>>} \cup {<<[content |-> t]>> : t \in ChunkTexts}

OpenAIChunks == {[choices |-> <<>>]} \cup {[choices |-> <<[delta |-> d]>>] : d \in OpenAIDeltas}

ChunksOf(adapter) == IF adapter = "openai" THEN OpenAIChunks ELSE GeminiChunks

\* _gemini_stream, lines 221-222: what the stream yields for a chunk.
GeminiYield(chunk) ==
    IF ~Falsy(chunk.text) THEN <<chunk.text>> ELSE <<>>

\* A filter that tests the content against None only.
OpenAIYieldNotNone(chunk) ==
    LET delta == IF chunk.choices # <<>> THEN chunk.choices[1].delta ELSE <<>>
    IN  IF delta # <<>> /\ delta[1].content # None THEN <<delta[1].content>> ELSE <<>>

\* _openai_stream, lines 238-240.
OpenAIYield(chunk) ==
    LET delta == IF chunk.choices # <<>> THEN chunk.choices[1].delta ELSE <<>>
    IN  IF delta # <<>> /\ ~Falsy(delta[1].content) THEN <<delta[1].content>> ELSE <<>>

YieldOf(adapter, chunk) ==
    IF adapter = "openai" THEN OpenAIYield(chunk) ELSE GeminiYield(chunk)

(***************************************************************************)
(* The provider request builders, _build_gemini_contents and               *)
(* _build_openai_messages.  A conversation is a list of references to turn *)
(* objects: the same object may stand at several positions of the list.    *)
(***************************************************************************)
VARIABLES
    builder,      \* the builder that ran: "none", "gemini" or "openai"
    heap,         \* the turn objects: a role and a content for each
    messages,     \* the conversation: a list of references into heap
    attachments,  \* the attachments argument
    built         \* the request the builder returned

buildVars == <<builder, heap, messages, attachments, built>>

Roles == {"user", "assistant"}

\* The references to turn objects.
TurnIds == 1..MaxTurns

Contents == {<<"h", "i">>}

Heaps == [TurnIds -> [role : Roles, content : Contents]]

Conversations == UNION {[1..n -> TurnIds] : n \in 0..MaxTurns}

MimePng == <<"i", "m", "a", "g", "e", "/", "p", "n", "g">>

MimePdf ==
    <<"a", "p", "p", "l", "i", "c", "a", "t", "i", "o", "n", "/", "p", "d", "f">>

MimeJpeg == <<"i", "m", "a", "g", "e", "/", "j", "p", "e", "g">>

ImagePrefix == <<"i", "m", "a", "g", "e", "/">>

DataA == <<"Q", "Q", "=", "=">>

\* An attachment: the key mimeType is optional (no or one element), data is
\* base64 text.
AttachmentItems ==
    {[mimeType |-> m, data |-> DataA] : m \in {<<>>, <<MimePng>>, <<MimePdf>>}}

\* An argument or a value that is None or a list.
NoneList == [isNone |-> TRUE, items |-> <<>>]

ListOf(items) == [isNone |-> FALSE, items |-> items]

AttachmentLists ==
    {NoneList} \cup
    {ListOf(items) : items \in UNION {[1..n -> AttachmentItems] : n \in 0..MaxAtts}}

\* Its truth value: a non-empty list.
Truthy(atts) == ~atts.isNone /\ atts.items # <<>>

\* base64.b64decode, on the data of this model.
B64Decode(d) == IF d = DataA THEN <<"A">> ELSE <<>>

\* att.get("mimeType", default)
MimeOf(att, default) == IF att.mimeType = <<>> THEN default ELSE att.mimeType[1]

TextPart(c) == [type |-> "text", mime |-> <<>>, data |-> c]

\* Lines 61-65: types.Part.from_bytes for one attachment.
GeminiPart(att) ==
    [type |-> "bytes", mime |-> MimeOf(att, MimeJpeg), data |-> B64Decode(att.data)]

\* _build_gemini_contents
BuildGeminiContents(objects, msgs, atts) ==
    [i \in 1..Len(msgs) |->
        LET msg == objects[msgs[i]]
            role == IF msg.role = "user" THEN "user" ELSE "model"
        IN  [role |-> role,
             parts |-> <<TextPart(msg.content)>> \o
                 (IF Truthy(atts) /\ i = Len(msgs) /\ role = "user"
                  THEN [k \in 1..Len(atts.items) |-> GeminiPart(atts.items[k])]
                  ELSE <<>>)]]

\* Lines 95-98: the image_url part of one attachment, whose url is
\* data:<mimeType>;base64,<data>.
OpenAIPart(att) ==
    [type |-> "image_url", mime |-> att.mimeType[1],
     data |-> <<"d", "a", "t", "a", ":">> \o att.mimeType[1]
                \o <<";", "b", "a", "s", "e", "6", "4", ",">> \o att.data]

\* Line 94: att.get("mimeType", "").startswith("image/")
IsImage(att) == StartsWith(MimeOf(att, <<>>), ImagePrefix)

\* Lines 92-98: the content parts of the turn that takes the attachments.
RECURSIVE OpenAIParts(_)
OpenAIParts(atts) ==
    IF atts = <<>> THEN <<>>
    ELSE (IF IsImage(Head(atts)) THEN <<OpenAIPart(Head(atts))>> ELSE <<>>)
         \o OpenAIParts(Tail(atts))

\* The content of an OpenAI turn is a text or a list of parts.
TextContent(c) == [kind |-> "text", text |-> c, parts |-> <<>>]

PartsContent(ps) == [kind |-> "parts", text |-> <<>>, parts |-> ps]

SystemPrompt == <<"s", "y", "s">>

\* _build_openai_messages.  msg is messages[-1] compares references.
BuildOpenAIMessages(objects, msgs, system_prompt, atts) ==
    <<[role |-> "system", content |-> TextContent(system_prompt)]>> \o
    [i \in 1..Len(msgs) |->
        LET msg == objects[msgs[i]]
        IN  IF msg.role = "user" /\ Truthy(atts) /\ msgs[i] = msgs[Len(msgs)]
            THEN [role |-> msg.role,
                  content |-> PartsContent(<<TextPart(msg.content)>> \o OpenAIParts(atts.items))]
            ELSE [role |-> msg.role, content |-> TextContent(msg.content)]]

\* No builder has run.
BuildIdle ==
    /\ builder = "none"
    /\ heap = <<>>
    /\ messages = <<>>
    /\ attachments = NoneList
    /\ built = <<>>

(***************************************************************************)
(* Embeddings: cosine_similarity and rank_by_similarity.  The vectors of   *)
(* this model have integer norms, and a score is the exact fraction        *)
(* dot / (norm_a * norm_b) in lowest terms.                                *)
(***************************************************************************)
Vectors == {<<0, 0>>, <<1, 0>>, <<0, 1>>, <<3, 4>>}

RECURSIVE Dot(_, _)
Dot(a, b) ==
    IF a = <<>> THEN 0 ELSE Head(a) * Head(b) + Dot(Tail(a), Tail(b))

\* np.linalg.norm: the square root of the sum of squares.
Norm(a) == CHOOSE r \in 0..Dot(a, a) : r * r = Dot(a, a)

RECURSIVE Gcd(_, _)
Gcd(m, n) == IF n = 0 THEN m ELSE Gcd(n, m % n)

Abs(n) == IF n < 0 THEN -n ELSE n

Fraction(num, den) ==
    LET g == Gcd(Abs(num), den)
    IN  [num |-> num \div g, den |-> den \div g]

\* Without the test of the norms the division gives nan, written 0/0.
CosineUnguarded(a, b) ==
    IF Norm(a) * Norm(b) = 0 THEN [num |-> 0, den |-> 0]
    ELSE Fraction(Dot(a, b), Norm(a) * Norm(b))

cosine_similarity(a, b) ==
    IF Norm(a) = 0 \/ Norm(b) = 0 THEN Fraction(0, 1)
    ELSE Fraction(Dot(a, b), Norm(a) * Norm(b))

Less(p, q) == p.num * q.den < q.num * p.den

\* list.sort(key=score, reverse=True) is stable: an entry goes behind the
\* entries whose score is not smaller.
RECURSIVE InsertBeforeTies(_, _)
InsertBeforeTies(sorted, x) ==
    IF sorted = <<>> THEN <<x>>
    ELSE IF ~Less(x.score[1], Head(sorted).score[1]) THEN <<x>> \o sorted
    ELSE <<Head(sorted)>> \o InsertBeforeTies(Tail(sorted), x)

RECURSIVE InsertByScore(_, _)
InsertByScore(sorted, x) ==
    IF sorted = <<>> THEN <<x>>
    ELSE IF Less(Head(sorted).score[1], x.score[1]) THEN <<x>> \o sorted
    ELSE <<Head(sorted)>> \o InsertByScore(Tail(sorted), x)

RECURSIVE SortByScore(_)
SortByScore(results) ==
    IF results = <<>> THEN <<>>
    ELSE InsertByScore(SortByScore(SubSeq(results, 1, Len(results) - 1)),
                       results[Len(results)])

\* A candidate is a mapping whose keys embedding, title, summary and score
\* are optional (no or one element).  The embedding is None or a list.
\* `c.get("embedding")` is truthy: the key is there, and its value is
\* neither None nor an empty list.
HasEmbeddingNotNone(c) == c.embedding # <<>> /\ ~c.embedding[1].isNone

HasEmbedding(c) == c.embedding # <<>> /\ Truthy(c.embedding[1])

RECURSIVE ScoredOwnScoreWins(_, _)
ScoredOwnScoreWins(query_embedding, candidates) ==
    IF candidates = <<>> THEN <<>>
    ELSE LET candidate == Head(candidates)
             rest == ScoredOwnScoreWins(query_embedding, Tail(candidates))
         IN  IF ~HasEmbedding(candidate) THEN rest
             ELSE IF candidate.score # <<>> THEN <<candidate>> \o rest
             ELSE <<[candidate EXCEPT
                        !.score = <<cosine_similarity(query_embedding,
                                                      candidate.embedding[1].items)>>]>>
                  \o rest

\* Lines 60-65 of rank_by_similarity.
RECURSIVE Scored(_, _)
Scored(query_embedding, candidates) ==
    IF candidates = <<>> THEN <<>>
    ELSE LET candidate == Head(candidates)
             rest == Scored(query_embedding, Tail(candidates))
         IN  IF ~HasEmbedding(candidate) THEN rest
             ELSE <<[candidate EXCEPT
                        !.score = <<cosine_similarity(query_embedding,
                                                      candidate.embedding[1].items)>>]>>
                  \o rest

rank_by_similarity(query_embedding, candidates) ==
    SortByScore(Scored(query_embedding, candidates))

(***************************************************************************)
(* The sidebar-refresh endpoint.                                           *)
(***************************************************************************)
\* s[:n] and s[-n:]
FirstN(s, n) == SubSeq(s, 1, IF Len(s) < n THEN Len(s) ELSE n)

LastN(s, n) == SubSeq(s, IF Len(s) > n THEN Len(s) - n + 1 ELSE 1, Len(s))

\* sep.join(texts)
RECURSIVE Join(_, _)
Join(sep, texts) ==
    IF texts = <<>> THEN <<>>
    ELSE IF Len(texts) = 1 THEN texts[1]
    ELSE texts[1] \o sep \o Join(sep, Tail(texts))

\* mapping.get(key, default) for an optional key.
Get(opt, default) == IF opt = <<>> THEN default ELSE opt[1]

\* The slices of sidebar_refresh.
RecentTurns == 6

QueryTurns == 3

RankedKept == 8

FallbackItems == 5

RankedShown == 5

ConceptsShown == 3

PromptItems == 5

SummaryChars == 500

SummariesShown == 5

\* The placeholders of the prompts.
NoStatusYet == <<"N", "o", " ", "s", "t", "a", "t", "u", "s", " ", "y", "e", "t", ".">>

NoneYet == <<"N", "o", "n", "e", " ", "y", "e", "t", ".">>

NoPastChats == <<"N", "o", " ", "p", "a", "s", "t", " ", "c", "h", "a", "t", "s", " ", "y", "e", "t", ".">>

CreateFresh == <<"(", "e", "m", "p", "t", "y", " ", "-", " ", "c", "r", "e", "a", "t", "e", " ", "f", "r", "e", "s", "h", ")">>

Untitled == <<"U", "n", "t", "i", "t", "l", "e", "d">>

\* A prompt template: its name and its replacement fields.
SIDEBAR_BRIDGE_QUESTIONS_PROMPT ==
    [name |-> "SIDEBAR_BRIDGE_QUESTIONS_PROMPT",
     fields |-> {"current_messages", "topic_name", "topic_status", "ranked_items_json"}]

SIDEBAR_NEW_DIRECTIONS_PROMPT ==
    [name |-> "SIDEBAR_NEW_DIRECTIONS_PROMPT",
     fields |-> {"topic_name", "topic_status", "covered_concepts", "current_summary"}]

STATUS_UPDATE_PROMPT ==
    [name |-> "STATUS_UPDATE_PROMPT",
     fields |-> {"topic_name", "current_status", "current_messages", "recent_summaries"}]

\* str.format(**kwargs): every replacement field needs its keyword, or the
\* call raises KeyError; the prompt is the template with its fields filled.
Format(template, kwargs) ==
    IF template.fields \subseteq DOMAIN kwargs
    THEN [raised |-> "none",
          prompt |-> [template |-> template.name,
                      filled |-> [f \in template.fields |-> kwargs[f]]]]
    ELSE [raised |-> "KeyError",
          prompt |-> [template |-> template.name, filled |-> <<>>]]

\* json.dumps: the JSON text of a value, kept as the value it encodes.
JsonDumps(v) == [json |-> v]

\* Line 189.
RecentMsgs(request) == LastN(request.messages, RecentTurns)

\* Lines 190-192.
CurrentMessagesText(request) ==
    Join(<<"\n">>,
         [i \in 1..Len(RecentMsgs(request)) |->
            RecentMsgs(request)[i].role \o <<":", " ">> \o RecentMsgs(request)[i].content])

\* Line 194.
QueryText(request) ==
    Join(<<" ">>,
         [i \in 1..Len(LastN(RecentMsgs(request), QueryTurns)) |->
            LastN(RecentMsgs(request), QueryTurns)[i].content])

\* Lines 198-200.
CandidatesWithEmbeddings(request) ==
    SelectSeq(request.allChatSummaries, HasEmbedding)

\* Line 201: the embedding call is made.
Embeds(request) ==
    CandidatesWithEmbeddings(request) # <<>> /\ Strip(QueryText(request)) # <<>>

\* Lines 212-225: the ranked items without their embeddings, then the
\* concepts.
CombinedRanked(request, ranked) ==
    [i \in 1..Len(FirstN(ranked, RankedShown)) |->
        [type |-> "item",
         item |-> [FirstN(ranked, RankedShown)[i] EXCEPT !.embedding = <<>>]]]
    \o
    [i \in 1..Len(FirstN(request.allConcepts, ConceptsShown)) |->
        [type |-> "concept",
         item |-> [id |-> Get(request.allConcepts[i].id, <<>>),
                   title |-> Get(request.allConcepts[i].title, <<>>),
                   preview |-> Get(request.allConcepts[i].preview, <<>>)]]]

\* Lines 234-236: the line of one entry of specifics, a mapping with a text
\* and an optional level, or a plain text.
StatusLine(item) ==
    LET level == IF item.isDict THEN Get(item.level, <<>>) ELSE <<>>
    IN  IF level # <<>>
        THEN <<"-", " ">> \o item.text \o <<" ", "(">> \o level \o <<")">>
        ELSE <<"-", " ">> \o item.text

\* Lines 228-237: a structured status becomes a text.

TopicStatusStr(status) ==
    IF ~status.isDict THEN status.text
    ELSE Join(<<"\n">>,
              [i \in 1..Len(status.overview) |-> <<"-", " ">> \o status.overview[i]]
              \o [i \in 1..Len(status.specifics) |-> StatusLine(status.specifics[i])])

\* `text or default`
OrElse(text, default) == IF text = <<>> THEN default ELSE text

\* Lines 247-249.
CoveredConcepts(request) ==
    OrElse(Join(<<"\n">>,
                [i \in 1..Len(request.allConcepts) |->
                    <<"-", " ">> \o Get(request.allConcepts[i].title, <<>>)
                    \o <<":", " ">> \o Get(request.allConcepts[i].preview, <<>>)]),
           NoneYet)

\* Lines 258-263.
RecentSummariesText(request) ==
    OrElse(Join(<<"\n">>,
                [i \in 1..Len(FirstN(request.allChatSummaries, SummariesShown)) |->
                    <<"-", " ">> \o Get(request.allChatSummaries[i].title, Untitled)
                    \o <<":", " ">> \o Get(request.allChatSummaries[i].summary, <<>>)]),
           NoPastChats)

\* Lines 240-245.
BridgePrompt(request, ranked) ==
    Format(SIDEBAR_BRIDGE_QUESTIONS_PROMPT,
           [current_messages |-> CurrentMessagesText(request),
            topic_name |-> request.topicName,
            topic_status |-> OrElse(TopicStatusStr(request.topicStatus), NoStatusYet),
            ranked_items_json |->
                JsonDumps(FirstN(CombinedRanked(request, ranked), PromptItems))])

\* Lines 251-256.
DirectionsPrompt(request) ==
    Format(SIDEBAR_NEW_DIRECTIONS_PROMPT,
           [topic_name |-> request.topicName,
            topic_status |-> OrElse(TopicStatusStr(request.topicStatus), NoStatusYet),
            covered_concepts |-> CoveredConcepts(request),
            current_summary |-> FirstN(CurrentMessagesText(request), SummaryChars)])

\* Lines 265-269.
StatusPrompt(request) ==
    Format(STATUS_UPDATE_PROMPT,
           [topic_name |-> request.topicName,
            current_status |-> OrElse(TopicStatusStr(request.topicStatus), CreateFresh),
            recent_summaries |-> RecentSummariesText(request)])

VARIABLES
    spc,           \* "idle", "embedding", "completed" or "failed"
    req,           \* the request body
    embed_calls,   \* the embed_text calls made
    embed_ended,   \* how the embed_text call ended: "no", "returned", "raised"
    ranked_items,  \* the ranked items, once they are known
    launched,      \* the router calls handed to the group join
    outcomes,      \* how each of them ended
    response,      \* the body the endpoint returned
    serror         \* the exception that left the endpoint

sidebarVars ==
    <<spc, req, embed_calls, embed_ended, ranked_items, launched, outcomes, response,
      serror>>

\* Lines 271-288: one llm.chat call of the group.
ChatCall(user_text, prompt, request) ==
    [messages |-> <<[role |-> "user", content |-> user_text]>>,
     system_prompt |-> prompt,
     json_mode |-> TRUE,
     model |-> request.model]

GenerateRelatedCards == <<"G", "e", "n", "e", "r", "a", "t", "e", " ", "r", "e", "l", "a", "t", "e", "d", " ", "c", "a", "r", "d", "s", ".">>

SuggestNewDirections == <<"S", "u", "g", "g", "e", "s", "t", " ", "n", "e", "w", " ", "d", "i", "r", "e", "c", "t", "i", "o", "n", "s", ".">>

UpdateStatusSummary == <<"U", "p", "d", "a", "t", "e", " ", "s", "t", "a", "t", "u", "s", " ", "s", "u", "m", "m", "a", "r", "y", ".">>

\* What a router call of the group ends with: an exception, a mapping whose
\* keys are optional, or a value that is no mapping.
NoKeys == [relatedCards |-> <<>>, newDirections |-> <<>>, overview |-> <<>>, status |-> <<>>]

Failure == [kind |-> "error", value |-> NoKeys]

NonDict == [kind |-> "list", value |-> NoKeys]

Dict(d) == [kind |-> "dict", value |-> d]

SampleDicts ==
    {NoKeys,
     [NoKeys EXCEPT !.relatedCards = <<<<"card">>>>],
     [NoKeys EXCEPT !.newDirections = <<<<"direction">>>>],
     [NoKeys EXCEPT !.overview = <<<<"point">>>>, !.status = <<"ok">>],
     [NoKeys EXCEPT !.status = <<"ok">>]}

TaskOutcomes == {Failure, NonDict} \cup {Dict(d) : d \in SampleDicts}

\* The statusUpdate field: null, a text or a mapping.
NullStatus == [kind |-> "null", text |-> "", dict |-> NoKeys]

\* Lines 294-315: the response body, from the three results of the join.
Assemble(bridge_result, directions_result, status_result) ==
    [relatedCards |->
        IF bridge_result.kind = "dict"
        THEN Get(bridge_result.value.relatedCards, <<>>) ELSE <<>>,
     newDirections |->
        IF directions_result.kind = "dict"
        THEN Get(directions_result.value.newDirections, <<>>) ELSE <<>>,
     statusUpdate |->
        IF status_result.kind = "dict" THEN
            IF status_result.value.overview # <<>>
            THEN [kind |-> "dict", text |-> "", dict |-> status_result.value]
            ELSE IF status_result.value.status # <<>>
            THEN [kind |-> "text", text |-> status_result.value.status[1], dict |-> NoKeys]
            ELSE NullStatus
        ELSE NullStatus]

NoResponse == Assemble(Failure, Failure, Failure)

\* An exception leaves the endpoint before it launched a router call.
Aborted(e) ==
    [pc |-> "failed", error |-> e, launched |-> <<>>, outcomes |-> <<>>,
     response |-> NoResponse]

\* Lines 271-315: the three calls are created, joined by
\* asyncio.gather(..., return_exceptions=True), and their results assembled.
Gathered(request, bridge_prompt, directions_prompt, status_prompt, outs) ==
    [pc |-> "completed", error |-> "none",
     launched |-> <<ChatCall(GenerateRelatedCards, bridge_prompt, request),
                    ChatCall(SuggestNewDirections, directions_prompt, request),
                    ChatCall(UpdateStatusSummary, status_prompt, request)>>,
     outcomes |-> outs,
     response |-> Assemble(outs[1], outs[2], outs[3])]

\* Lines 211-315: the ways sidebar_refresh can end once the ranked items are
\* known.  The three prompts are formatted in turn, and a format that raises
\* ends the endpoint.
Endings(request, ranked) ==
    LET bridge == BridgePrompt(request, ranked)
        directions == DirectionsPrompt(request)
        status == StatusPrompt(request)
    IN  IF bridge.raised # "none" THEN {Aborted(bridge.raised)}
        ELSE IF directions.raised # "none" THEN {Aborted(directions.raised)}
        ELSE IF status.raised # "none" THEN {Aborted(status.raised)}
        ELSE {Gathered(request, bridge.prompt, directions.prompt, status.prompt, outs) :
                outs \in [1..3 -> TaskOutcomes]}

(***************************************************************************)
(* The requests of the sidebar model.                                      *)
(***************************************************************************)
UserText == <<"u", "s", "e", "r">>

AssistantText == <<"a", "s", "s", "i", "s", "t", "a", "n", "t">>

MsgsNone == <<>>

MsgsHi == <<[role |-> UserText, content |-> <<"h", "i">>]>>

\* Two turns with blank contents: the query text is blank.
MsgsBlank ==
    <<[role |-> UserText, content |-> <<>>], [role |-> AssistantText, content |-> <<" ">>]>>

\* More turns than the endpoint looks at.
MsgsLong ==
    [i \in 1..7 |-> [role |-> IF i % 2 = 1 THEN UserText ELSE AssistantText,
                     content |-> <<"m">>]]

Summary(id, emb) ==
    [id |-> id, embedding |-> emb, title |-> <<<<"t">>>>, summary |-> <<>>, score |-> <<>>]

SummariesNone == <<>>

\* More summaries than the fallback keeps, none with an embedding.
SummariesPlain == [i \in 1..6 |-> Summary(i, <<>>)]

\* Embeddings that are a vector, None, an empty list, or missing.
SummariesMixed ==
    <<Summary(1, <<ListOf(<<0, 1>>)>>), Summary(2, <<NoneList>>),
      Summary(3, <<ListOf(<<>>)>>), Summary(4, <<ListOf(<<3, 4>>)>>),
      Summary(5, <<>>), Summary(6, <<ListOf(<<1, 0>>)>>)>>

\* More embedded summaries than the ranking keeps.
SummariesMany ==
    [i \in 1..9 |-> Summary(i, <<ListOf(IF i % 2 = 1 THEN <<1, 0>> ELSE <<3, 4>>)>>)]

StatusOf(isDict, text, overview, specifics) ==
    [isDict |-> isDict, text |-> text, overview |-> overview, specifics |-> specifics]

TopicStatuses ==
    {StatusOf(FALSE, <<>>, <<>>, <<>>),
     StatusOf(FALSE, <<"s">>, <<>>, <<>>),
     StatusOf(TRUE, <<>>, <<>>, <<>>),
     StatusOf(TRUE, <<>>, <<<<"o">>>>,
              <<[isDict |-> TRUE, text |-> <<"x">>, level |-> <<<<"solid">>>>],
                [isDict |-> TRUE, text |-> <<"y">>, level |-> <<>>],
                [isDict |-> FALSE, text |-> <<"z">>, level |-> <<>>]>>)}

Concept(id, title, preview) == [id |-> id, title |-> title, preview |-> preview]

ConceptLists ==
    {<<>>,
     <<Concept(<<<<"1">>>>, <<<<"c">>>>, <<<<"p">>>>)>>,
     [i \in 1..4 |-> Concept(<<<<"1">>>>, <<>>, <<>>)]}

TopicName == <<"M", "L">>

Requests ==
    {[messages |-> m, topicName |-> TopicName, topicStatus |-> s,
      allChatSummaries |-> c, allConcepts |-> k, model |-> md] :
        m \in {MsgsNone, MsgsHi, MsgsBlank, MsgsLong},
        s \in TopicStatuses,
        c \in {SummariesNone, SummariesPlain, SummariesMixed, SummariesMany},
        k \in ConceptLists,
        md \in {None, ModelGpt}}

NoRequest ==
    [messages |-> <<>>, topicName |-> <<>>, topicStatus |-> StatusOf(FALSE, <<>>, <<>>, <<>>),
     allChatSummaries |-> <<>>, allConcepts |-> <<>>, model |-> None]

\* No request has arrived.
SidebarIdle ==
    /\ spc = "idle"
    /\ req = NoRequest
    /\ embed_calls = 0
    /\ embed_ended = "no"
    /\ ranked_items = <<>>
    /\ launched = <<>>
    /\ outcomes = <<>>
    /\ response = NoResponse
    /\ serror = "none"

(***************************************************************************)
(* The objects chat results are made of.  A result holds references to its *)
(* topic mapping and its concepts list; reference 0 stands for the objects *)
(* the module-level _FALLBACK holds, reference i for the objects created   *)
(* for the i-th result.                                                    *)
(***************************************************************************)
VARIABLES
    topics,     \* the topic mappings, by reference
    concepts,   \* the concepts lists, by reference
    handed,     \* the results chat has returned, in order
    seen,       \* the value of each result when it was returned
    touched     \* the results a caller has written through

shareVars == <<topics, concepts, handed, seen, touched>>

ModuleRef == 0

Refs == {ModuleRef} \cup (1..MaxCalls)

\* Line 37: the new mapping takes the values of the keys of _FALLBACK, which
\* are the topic mapping and the concepts list themselves, and a response.
FallbackRefs(raw) ==
    [via |-> "fallback", response |-> FallbackResponse(raw).response,
     topic |-> ModuleRef, concepts |-> ModuleRef]

\* Lines 19 and 24: json.loads builds new objects for the result.
ParsedRefs(i) ==
    [via |-> "parsed", response |-> <<"o", "k">>, topic |-> i, concepts |-> i]

ParsedTopic == [name |-> <<"t">>, matchedExistingId |-> None, confidence |-> 1]

\* What a caller reads in a result.
View(r, topic_objects, concept_objects) ==
    [response |-> r.response, topic |-> topic_objects[r.topic],
     concepts |-> concept_objects[r.concepts]]

\* No chat call has returned.
ShareIdle ==
    /\ topics = [r \in Refs |-> FALLBACK.topic]
    /\ concepts = [r \in Refs |-> FALLBACK.concepts]
    /\ handed = <<>>
    /\ seen = <<>>
    /\ touched = {}

(***************************************************************************)
(* The configuration the services consume: the process environment, the    *)
(* constructors of LLMRouter and EmbeddingService, and the provider        *)
(* clients their calls create.                                             *)
(***************************************************************************)
VARIABLES
    environ,      \* os.environ: each variable is unset (<<>>) or set (<<v>>)
    constructed,  \* os.environ as it was when the services were constructed
    services,     \* self.provider of the router and of the embedding service
    used          \* the provider and the credential of each client created

configVars == <<environ, constructed, services, used>>

\* os.getenv(name, default)
GetEnv(env, name, default) == IF env[name] = <<>> THEN default ELSE env[name][1]

\* EmbeddingService.__init__
EmbeddingProvider(arg, env) ==
    IF arg # "" THEN arg ELSE GetEnv(env, "EMBEDDING_PROVIDER", "openai")

\* The variable that holds the credential of a provider.
KeyName(adapter) == IF adapter = "openai" THEN "OPENAI_API_KEY" ELSE "GEMINI_API_KEY"

\* Lines 145, 169, 214 and 231 of llm_router.py and lines 23 and 31 of
\* embeddings.py: the adapter creates its client from os.getenv(key), which
\* is None when the variable is unset.
ClientOf(service, adapter, env) ==
    [service |-> service, provider |-> adapter,
     api_key |-> GetEnv(env, KeyName(adapter), "None")]

NoServices == [chat |-> "none", embed |-> "none"]

Environments ==
    [LLM_PROVIDER : {<<>>, <<"openai">>},
     EMBEDDING_PROVIDER : {<<>>, <<"gemini">>},
     OPENAI_API_KEY : {<<"k1">>, <<"k2">>},
     GEMINI_API_KEY : {<<>>, <<"k1">>}]

\* No service has been constructed.
ConfigIdle ==
    /\ environ \in Environments
    /\ constructed = environ
    /\ services = NoServices
    /\ used = <<>>

(***************************************************************************)
(* A call of rank_by_similarity: the query, the candidate list the caller  *)
(* passes, the same list after the call, and what the call returns.        *)
(***************************************************************************)
VARIABLES
    rank_pc,     \* "idle", "ranked" after one call, "twice" after a second
    rank_query,  \* the query embedding
    rank_given,  \* the candidate list as the caller built it
    rank_kept,   \* the candidate list object, as it is now
    rank_out,    \* what the first call returned
    rank_again   \* what the second call returned

rankVars == <<rank_pc, rank_query, rank_given, rank_kept, rank_out, rank_again>>

\* The value of the key embedding of a candidate: no key, None, an empty
\* list, or a vector.
EmbeddingValues ==
    {<<>>, <<NoneList>>, <<ListOf(<<>>)>>}
        \cup {<<ListOf(v)>> : v \in Vectors \cup {<<-1, 0>>}}

\* Candidates with and without a score of their own.
CandidateKinds ==
    {[embedding |-> e, score |-> <<>>] : e \in EmbeddingValues}
        \cup {[embedding |-> e, score |-> <<Fraction(1, 2)>>] :
                 e \in {<<>>, <<ListOf(<<1, 0>>)>>}}

\* The candidate at position i of a list has the id i.
CandidateLists ==
    UNION {{[i \in 1..n |->
                [id |-> i, embedding |-> kinds[i].embedding, title |-> <<TopicName>>,
                 summary |-> <<>>, score |-> kinds[i].score]] :
            kinds \in [1..n -> CandidateKinds]} : n \in 0..MaxCands}

RankCallInPlace(query_embedding, candidates) ==
    [output |-> rank_by_similarity(query_embedding, candidates),
     candidates |->
        [i \in 1..Len(candidates) |->
            IF HasEmbedding(candidates[i])
            THEN Scored(query_embedding, <<candidates[i]>>)[1]
            ELSE candidates[i]]]

\* rank_by_similarity builds a new mapping for every entry (line 65) and
\* sorts the list of the new mappings (line 66): the call leaves the list it
\* was passed, and the mappings in it, as they were.
RankCall(query_embedding, candidates) ==
    [output |-> rank_by_similarity(query_embedding, candidates),
     candidates |-> candidates]

\* rank_by_similarity has not been called.
RankIdle ==
    /\ rank_pc = "idle"
    /\ rank_query \in Vectors
    /\ rank_given \in CandidateLists
    /\ rank_kept = rank_given
    /\ rank_out = <<>>
    /\ rank_again = <<>>

(***************************************************************************)
(* A call of EmbeddingService.embed_text.                                  *)
(***************************************************************************)
VARIABLES
    embed_provider,  \* self.provider of the EmbeddingService
    embed_pc,        \* "idle", "awaiting", "done" or "failed"
    embed_asked,     \* the texts embed_text was called with
    embed_sent,      \* the embedding calls issued to the providers
    embed_raised,    \* what the provider calls raised
    embed_result,    \* what embed_text returned
    embed_error      \* what embed_text raised

embedVars ==
    <<embed_provider, embed_pc, embed_asked, embed_sent, embed_raised, embed_result,
      embed_error>>

OpenAIEmbeddingModel == <<"text-embedding-3-small">>

GeminiEmbeddingModel == <<"text-embedding-004">>

\* A dispatch that takes every provider but gemini for openai.
EmbedDispatchDefault(configured) ==
    IF configured = "gemini" THEN <<"gemini">> ELSE <<"openai">>

\* Lines 13-18 of embed_text: the adapter of the configured provider, or none.
EmbedDispatch(configured) ==
    IF configured = "openai" THEN <<"openai">>
    ELSE IF configured = "gemini" THEN <<"gemini">>
    ELSE <<>>

\* Lines 24-26 and 32-35: the one call an adapter issues.
EmbeddingCall(adapter, text) ==
    [provider |-> adapter,
     model |-> IF adapter = "openai" THEN OpenAIEmbeddingModel
               ELSE GeminiEmbeddingModel,
     input |-> text]

\* Line 18.
UnknownProvider(configured) ==
    [type |-> "ValueError", message |-> <<"Unknown embedding provider: ", configured>>]

\* What a provider call raises.
ProviderErrors ==
    {[type |-> "AuthenticationError", message |-> <<"invalid api key">>],
     [type |-> "ValueError", message |-> <<"invalid input">>]}

\* Lines 24 and 32: the await of the provider call stands in no try block,
\* in the adapter or in embed_text: what it raises is what embed_text raises.
OnEmbeddingError(raised) == [pc |-> "failed", error |-> <<raised>>]

\* embed_text has not been called.
EmbedIdle ==
    /\ embed_pc = "idle"
    /\ embed_asked = <<>>
    /\ embed_sent = <<>>
    /\ embed_raised = <<>>
    /\ embed_result = <<>>
    /\ embed_error = <<>>

(***************************************************************************)
(* The streaming chat endpoint: event_generator of chat_stream_endpoint.   *)
(***************************************************************************)
VARIABLES
    sse_pc,      \* "idle", "streaming", "meta", "ended" or "crashed"
    sse_req,     \* the request
    sse_stream,  \* what llm.chat_stream has done: its deltas, and how it ended
    sse_parts,   \* full_response_parts
    sse_events,  \* the events the generator has yielded
    sse_meta,    \* the metadata calls of llm.chat, in order
    sse_got      \* what the metadata call ended with, once it has

sseVars == <<sse_pc, sse_req, sse_stream, sse_parts, sse_events, sse_meta, sse_got>>

CHAT_METADATA_PROMPT == [name |-> "CHAT_METADATA_PROMPT", fields |-> {"topics_json"}]

\* Line 161.
ChunkEvent(chunk) == [type |-> "chunk", text |-> chunk]

\* Line 163: the message is str(e).
ErrorEvent(e) == [type |-> "error", message |-> e]

\* An except clause that ends the generator without an event.
OnStreamErrorSilent(e) == [pc |-> "ended", events |-> <<>>]

\* Lines 162-164: the except clause of the stream loop.
OnStreamError(e) == [pc |-> "ended", events |-> <<ErrorEvent(e)>>]

\* {}
EmptyDict == [k \in {} |-> <<>>]

\* A mapping llm.chat may return: each of its keys topic and concepts is
\* there or not.
Meta(topic_key, concepts_key) == [topic |-> topic_key, concepts |-> concepts_key]

\* Line 177.
MetaFallback == Meta(<<FALLBACK.topic>>, <<FALLBACK.concepts>>)

\* Line 179, for a metadata that is a mapping.
DoneEvent(full_response, metadata) ==
    [type |-> "done", response |-> full_response,
     topic |-> Get(metadata.topic, EmptyDict),
     concepts |-> Get(metadata.concepts, <<>>)]

\* A metadata call on the turns of the request alone.
MetaCallRequestOnly(request, prompt, full_response) ==
    [messages |-> request.messages, system_prompt |-> prompt, json_mode |-> TRUE,
     model |-> request.model]

\* Lines 170-175: the metadata call.
MetaCall(request, prompt, full_response) ==
    [messages |-> Append(request.messages,
                         [role |-> AssistantText, content |-> full_response]),
     system_prompt |-> prompt,
     json_mode |-> TRUE,
     model |-> request.model]

\* What the metadata call ends with: an exception, or the value llm.chat
\* returns, which is what json.loads made of the reply: a mapping, or a list.
MetaRaised == [kind |-> "error", value |-> EmptyDict, entries |-> <<>>]

MetaDict(d) == [kind |-> "dict", value |-> d, entries |-> <<>>]

MetaList(l) == [kind |-> "list", value |-> EmptyDict, entries |-> l]

MetaTopic == [name |-> TopicName, matchedExistingId |-> None, confidence |-> 1]

MetaDicts ==
    {Meta(<<>>, <<>>), Meta(<<MetaTopic>>, <<>>), Meta(<<MetaTopic>>, <<<<<<"c">>>>>>)}

MetaOutcomes ==
    {MetaRaised, MetaList(<<>>), MetaList(<<Meta(<<MetaTopic>>, <<<<>>>>)>>)}
        \cup {MetaDict(d) : d \in MetaDicts}

\* A generator that reports a failed metadata call as an error event.
AfterMetaUncaught(outcome, full_response) ==
    IF outcome.kind = "dict"
    THEN [pc |-> "ended", events |-> <<DoneEvent(full_response, outcome.value)>>]
    ELSE IF outcome.kind = "error"
    THEN [pc |-> "ended", events |-> <<ErrorEvent(<<>>)>>]
    ELSE [pc |-> "crashed", events |-> <<>>]

\* Lines 176-179: what the generator does with the end of the metadata call.
\* The except clause covers the call; metadata.get of line 179 stands after
\* it, and a list has no get.
AfterMeta(outcome, full_response) ==
    IF outcome.kind = "error"
    THEN [pc |-> "ended", events |-> <<DoneEvent(full_response, MetaFallback)>>]
    ELSE IF outcome.kind = "dict"
    THEN [pc |-> "ended", events |-> <<DoneEvent(full_response, outcome.value)>>]
    ELSE [pc |-> "crashed", events |-> <<>>]

NoStreamRequest == [messages |-> <<>>, model |-> None]

\* llm.chat_stream has not been iterated.
NoStream == [deltas |-> <<>>, ended |-> "no", error |-> <<>>]

\* No request has arrived.
SseIdle ==
    /\ sse_pc = "idle"
    /\ sse_req = NoStreamRequest
    /\ sse_stream = NoStream
    /\ sse_parts = <<>>
    /\ sse_events = <<>>
    /\ sse_meta = <<>>
    /\ sse_got = <<>>

(***************************************************************************)
(* The status-update endpoint, update_topic_status.                        *)
(***************************************************************************)
VARIABLES
    upd_pc,        \* "idle", "completed" or "failed"
    upd_req,       \* the body of the last request
    upd_calls,     \* the router calls made for it
    upd_returned,  \* what llm.chat returned, if it returned
    upd_result,    \* the body the endpoint returned
    upd_error,     \* the exception that left the endpoint
    upd_count      \* the requests served

updVars ==
    <<upd_pc, upd_req, upd_calls, upd_returned, upd_result, upd_error, upd_count>>

NoChatsYet == <<"N", "o", " ", "c", "h", "a", "t", "s", " ", "y", "e", "t", ".">>

UpdateTheStatus == <<"U", "p", "d", "a", "t", "e", " ", "t", "h", "e", " ", "s", "t", "a", "t", "u", "s", ".">>

\* Line 361.
RecentText(summaries) ==
    OrElse(Join(<<"\n">>, [i \in 1..Len(summaries) |-> <<"-", " ">> \o summaries[i]]),
           NoChatsYet)

\* Lines 351-366: the current status as a text, then the prompt.
UpdatePrompt(request) ==
    Format(STATUS_UPDATE_PROMPT,
           [topic_name |-> request.topicName,
            current_status |-> OrElse(TopicStatusStr(request.currentStatus), CreateFresh),
            recent_summaries |-> RecentText(request.recentSummaries)])

\* Lines 367-373: llm.chat raises, or its result is the response.
AfterUpdateChat(call, outcome) ==
    IF outcome.kind = "error"
    THEN [pc |-> "failed", error |-> "ProviderError", calls |-> <<call>>,
          returned |-> <<>>, result |-> <<>>]
    ELSE [pc |-> "completed", error |-> "none", calls |-> <<call>>,
          returned |-> <<outcome>>, result |-> <<outcome>>]

\* Lines 351-373: the ways the endpoint can end for a request.
UpdateEndings(request) ==
    LET formatted == UpdatePrompt(request)
    IN  IF formatted.raised # "none"
        THEN {[pc |-> "failed", error |-> formatted.raised, calls |-> <<>>,
               returned |-> <<>>, result |-> <<>>]}
        ELSE {AfterUpdateChat(ChatCall(UpdateTheStatus, formatted.prompt, request),
                              outcome) : outcome \in TaskOutcomes}

NoUpdateRequest ==
    [topicName |-> <<>>, currentStatus |-> StatusOf(FALSE, <<>>, <<>>, <<>>),
     recentSummaries |-> <<>>, model |-> None]

\* No request has arrived.
UpdIdle ==
    /\ upd_pc = "idle"
    /\ upd_req = NoUpdateRequest
    /\ upd_calls = <<>>
    /\ upd_returned = <<>>
    /\ upd_result = <<>>
    /\ upd_error = "none"
    /\ upd_count = 0

(***************************************************************************)
(* The provider request and the web-search flag.                           *)
(***************************************************************************)
VARIABLES
    srch_pc,        \* "idle", "sent" or "failed"
    srch_provider,  \* the provider the router was constructed with
    srch_args,      \* the arguments of the call of chat or chat_stream
    srch_request,   \* the request handed to the provider's client, if any
    srch_error      \* the exception the call raised

srchVars == <<srch_pc, srch_provider, srch_args, srch_request, srch_error>>

ModelGemini3 == <<"g", "e", "m", "i", "n", "i", "-", "3", "-", "p", "r", "o">>

Gemini3Tag == <<"g", "e", "m", "i", "n", "i", "-", "3">>

\* `sub in text`
Contains(text, sub) == Find(text, sub, 1) # 0

\* types.ThinkingConfig(thinking_budget=1024)
ThinkingBudget == 1024

\* types.Tool(google_search=types.GoogleSearch())
GoogleSearchTool == [google_search |-> "GoogleSearch"]

\* A configuration builder that never attaches a tool.
BuildGeminiConfigNoSearch(system_prompt, m, json, use_search) ==
    [system_instruction |-> system_prompt,
     response_mime_type |-> IF json THEN <<"application/json">> ELSE <<>>,
     thinking_config |-> IF Contains(m, Gemini3Tag) THEN <<ThinkingBudget>> ELSE <<>>,
     tools |-> <<>>]

\* _build_gemini_config: the keywords of GenerateContentConfig; a keyword
\* that is not set is <<>>.
BuildGeminiConfig(system_prompt, m, json, use_search) ==
    LET tools == IF use_search THEN <<GoogleSearchTool>> ELSE <<>>
    IN  [system_instruction |-> system_prompt,
         response_mime_type |-> IF json THEN <<"application/json">> ELSE <<>>,
         thinking_config |-> IF Contains(m, Gemini3Tag) THEN <<ThinkingBudget>> ELSE <<>>,
         tools |-> IF tools # <<>> THEN <<tools>> ELSE <<>>]

\* _gemini_chat (lines 171-176) and _gemini_stream (lines 216-220): the
\* keywords of generate_content and of generate_content_stream.
GeminiRequest(operation, m, system_prompt, json, use_search) ==
    [adapter |-> "gemini",
     method |-> IF operation = "chat" THEN "generate_content"
                ELSE "generate_content_stream",
     model |-> m,
     config |-> BuildGeminiConfig(system_prompt, m,
                                  IF operation = "chat" THEN json ELSE FALSE,
                                  use_search)]

\* _openai_chat (lines 148-152) and _openai_stream (lines 233-235): the
\* keywords of chat.completions.create.
OpenAIRequest(operation, m, system_prompt, json) ==
    [adapter |-> "openai",
     method |-> "chat.completions.create",
     model |-> m,
     system |-> system_prompt,
     temperature |-> "0.7",
     response_format |-> IF operation = "chat" /\ json THEN <<"json_object">> ELSE <<>>,
     stream |-> operation = "chat_stream"]

\* chat (lines 129-136) and chat_stream (lines 195-204) with their
\* arguments: use_search is handed to the Gemini adapter only.
SearchDispatch(configured, args) ==
    LET m == EffectiveModel(args.model)
        resolved == ResolveProvider(configured, m)
    IN  IF resolved = "openai"
        THEN [pc |-> "sent", error |-> "none",
              request |-> <<OpenAIRequest(args.op, m, SystemPrompt, args.json_mode)>>]
        ELSE IF resolved = "gemini"
        THEN [pc |-> "sent", error |-> "none",
              request |-> <<GeminiRequest(args.op, m, SystemPrompt, args.json_mode,
                                          args.use_search)>>]
        ELSE [pc |-> "failed", error |-> "UnroutableModel", request |-> <<>>]

NoArgs == [op |-> "chat", model |-> None, json_mode |-> TRUE, use_search |-> FALSE]

\* No call has been made.
SrchIdle ==
    /\ srch_pc = "idle"
    /\ srch_args = NoArgs
    /\ srch_request = <<>>
    /\ srch_error = "none"

\* The router as main.py constructs it, and no call.
SrchFixed ==
    /\ srch_provider = ConfiguredProvider("", <<>>)
    /\ SrchIdle

\* The state groups added to the router, the builders and the sidebar.
restVars == <<shareVars, configVars, rankVars, embedVars, sseVars, updVars, srchVars>>

\* Nothing to rank.
RankFixed ==
    /\ rank_pc = "idle"
    /\ rank_query = <<0, 0>>
    /\ rank_given = <<>>
    /\ rank_kept = <<>>
    /\ rank_out = <<>>
    /\ rank_again = <<>>

\* The embedding service as main.py constructs it.
EmbedFixed ==
    /\ embed_provider = EmbeddingProvider("", [EMBEDDING_PROVIDER |-> <<>>])
    /\ EmbedIdle

\* The environment of the other parts is fixed.
ConfigFixed ==
    /\ environ = [LLM_PROVIDER |-> <<>>, EMBEDDING_PROVIDER |-> <<>>,
                  OPENAI_API_KEY |-> <<"k1">>, GEMINI_API_KEY |-> <<"k1">>]
    /\ constructed = environ
    /\ services = NoServices
    /\ used = <<>>

RestIdle == ShareIdle /\ ConfigFixed /\ RankFixed /\ EmbedFixed /\ SseIdle /\ UpdIdle /\ SrchFixed

vars == <<routerVars, buildVars, sidebarVars, restVars>>

\* What the operations of each part leave alone.
beyondRouter == <<buildVars, sidebarVars, restVars>>

beyondBuild == <<routerVars, sidebarVars, restVars>>

beyondSidebar == <<routerVars, buildVars, restVars>>

beyondShare == <<routerVars, buildVars, sidebarVars, configVars, rankVars, embedVars, sseVars, updVars,
      srchVars>>

beyondConfig == <<routerVars, buildVars, sidebarVars, shareVars, rankVars, embedVars, sseVars, updVars,
      srchVars>>

beyondRank == <<routerVars, buildVars, sidebarVars, shareVars, configVars, embedVars, sseVars, updVars,
      srchVars>>

beyondEmbed == <<routerVars, buildVars, sidebarVars, shareVars, configVars, rankVars, sseVars, updVars,
      srchVars>>

beyondSse ==
    <<routerVars, buildVars, sidebarVars, shareVars, configVars, rankVars, embedVars,
      updVars, srchVars>>

beyondUpd ==
    <<routerVars, buildVars, sidebarVars, shareVars, configVars, rankVars, embedVars,
      sseVars, srchVars>>

beyondSrch ==
    <<routerVars, buildVars, sidebarVars, shareVars, configVars, rankVars, embedVars,
      sseVars, updVars>>

(***************************************************************************)
(* The router's state machine.                                             *)
(***************************************************************************)
ProviderArgs == {"", "openai", "gemini", "anthropic"}

ProviderEnvs == {<<>>, <<"openai">>, <<"anthropic">>}

\* The state after LLMRouter(...) was constructed and before a call.
RouterIdle ==
    /\ pc = "idle"
    /\ target = "none"
    /\ calls = <<>>
    /\ reply = None
    /\ parsed = NotParsed
    /\ result = NoResult
    /\ error = "none"
    /\ received = <<>>
    /\ yielded = <<>>

InitRouter ==
    /\ op \in {"chat", "chat_stream"}
    /\ \E arg \in ProviderArgs, env \in ProviderEnvs :
            provider = ConfiguredProvider(arg, env)
    /\ model \in Models
    /\ json_mode \in (IF op = "chat" THEN BOOLEAN ELSE {FALSE})
    /\ RouterIdle
    /\ BuildIdle
    /\ SidebarIdle
    /\ RestIdle

\* chat and chat_stream up to the provider call.
Invoke ==
    /\ pc = "idle"
    /\ LET d == Dispatch(op, provider, model, calls)
       IN  /\ pc' = d.pc
           /\ target' = d.target
           /\ calls' = d.calls
           /\ error' = d.error
    /\ UNCHANGED <<op, provider, model, json_mode, reply, parsed, result,
                   received, yielded>>
    /\ UNCHANGED beyondRouter

\* The provider call of chat returns a response whose text is one of replies.
ProviderReturns(replies) ==
    /\ pc = "awaiting"
    /\ \E r \in replies :
        /\ reply' = r
        /\ parsed' = TryExtract(r, json_mode)
        /\ \E out \in {Respond(parsed', r, json_mode)} :
            /\ pc' = IF out.raised = "none" THEN "completed" ELSE "failed"
            /\ result' = out.value
            /\ error' = out.raised
    /\ UNCHANGED <<op, provider, model, json_mode, target, calls, received, yielded>>
    /\ UNCHANGED beyondRouter

\* The provider call of chat fails.
ProviderFails ==
    /\ pc = "awaiting"
    /\ LET f == OnProviderError(target, calls)
       IN  /\ pc' = f.pc
           /\ calls' = f.calls
           /\ error' = f.error
    /\ UNCHANGED <<op, provider, model, json_mode, target, reply, parsed,
                   result, received, yielded>>
    /\ UNCHANGED beyondRouter

\* The transport delivers one more chunk to _gemini_stream or _openai_stream.
StreamChunk ==
    /\ pc = "streaming"
    /\ Len(received) < MaxChunks
    /\ \E c \in ChunksOf(target) :
        /\ received' = Append(received, c)
        /\ yielded' = yielded \o YieldOf(target, c)
    /\ UNCHANGED <<op, provider, model, json_mode, pc, target, calls, reply,
                   parsed, result, error>>
    /\ UNCHANGED beyondRouter

\* The transport ends the stream.
StreamEnds ==
    /\ pc = "streaming"
    /\ pc' = "completed"
    /\ UNCHANGED <<op, provider, model, json_mode, target, calls, reply,
                   parsed, result, error, received, yielded>>
    /\ UNCHANGED beyondRouter

\* The streaming call, or the iteration over it, fails.
StreamFails ==
    /\ pc = "streaming"
    /\ pc' = "failed"
    /\ error' = "ProviderError"
    /\ UNCHANGED <<op, provider, model, json_mode, target, calls, reply,
                   parsed, result, received, yielded>>
    /\ UNCHANGED beyondRouter

NextRouter ==
    \/ Invoke
    \/ ProviderReturns(SampleReplies)
    \/ ProviderFails
    \/ StreamChunk
    \/ StreamEnds
    \/ StreamFails

\* The router, for every configuration and a sample of provider texts.
SpecRouter == InitRouter /\ [][NextRouter]_vars

\* chat on both adapters, for every provider text.
InitRecover ==
    /\ op = "chat"
    /\ provider = ConfiguredProvider("", <<>>)
    /\ model \in {None, ModelGpt}
    /\ json_mode \in BOOLEAN
    /\ RouterIdle
    /\ BuildIdle
    /\ SidebarIdle
    /\ RestIdle

NextRecover ==
    \/ Invoke
    \/ ProviderReturns(AllReplies \cup LongReplies)

SpecRecover == InitRecover /\ [][NextRecover]_vars

\* The builder of _gemini_chat and _gemini_stream runs (lines 170 and 215).
BuildGemini ==
    /\ builder = "none"
    /\ \E h \in Heaps, ms \in Conversations, atts \in AttachmentLists :
        /\ heap' = h
        /\ messages' = ms
        /\ attachments' = atts
        /\ built' = BuildGeminiContents(h, ms, atts)
    /\ builder' = "gemini"
    /\ UNCHANGED beyondBuild

\* The builder of _openai_chat and _openai_stream runs (lines 146 and 232).
BuildOpenAI ==
    /\ builder = "none"
    /\ \E h \in Heaps, ms \in Conversations, atts \in AttachmentLists :
        /\ heap' = h
        /\ messages' = ms
        /\ attachments' = atts
        /\ built' = BuildOpenAIMessages(h, ms, SystemPrompt, atts)
    /\ builder' = "openai"
    /\ UNCHANGED beyondBuild

InitBuild ==
    /\ op = "chat"
    /\ provider = ConfiguredProvider("", <<>>)
    /\ model = None
    /\ json_mode = FALSE
    /\ RouterIdle
    /\ BuildIdle
    /\ SidebarIdle
    /\ RestIdle

NextBuild ==
    \/ BuildGemini
    \/ BuildOpenAI

\* The request builders, for every conversation and attachment list.
SpecBuild == InitBuild /\ [][NextBuild]_vars

(***************************************************************************)
(* The sidebar-refresh endpoint's state machine.                           *)
(***************************************************************************)
\* The endpoint runs from the ranked items to its end.
Conclude(request, ranked) ==
    \E ending \in Endings(request, ranked) :
        /\ spc' = ending.pc
        /\ serror' = ending.error
        /\ launched' = ending.launched
        /\ outcomes' = ending.outcomes
        /\ response' = ending.response

\* A request arrives (lines 189-201): the endpoint awaits the embedding of
\* the query, or goes on with the first summaries (line 209).
SidebarRefresh ==
    /\ spc = "idle"
    /\ \E request \in Requests :
        /\ req' = request
        /\ IF Embeds(request)
           THEN /\ spc' = "embedding"
                /\ embed_calls' = embed_calls + 1
                /\ UNCHANGED <<ranked_items, launched, outcomes, response, serror>>
           ELSE /\ ranked_items' = FirstN(request.allChatSummaries, FallbackItems)
                /\ Conclude(request, ranked_items')
                /\ UNCHANGED embed_calls
    /\ UNCHANGED embed_ended
    /\ UNCHANGED beyondSidebar

\* embed_text returns the embedding of the query (lines 203-205).
EmbedReturns ==
    /\ spc = "embedding"
    /\ \E query_embedding \in Vectors :
        /\ ranked_items' =
              FirstN(rank_by_similarity(query_embedding, CandidatesWithEmbeddings(req)),
                     RankedKept)
        /\ Conclude(req, ranked_items')
    /\ embed_ended' = "returned"
    /\ UNCHANGED <<req, embed_calls, beyondSidebar>>

\* embed_text raises (lines 206-207).
EmbedFails ==
    /\ spc = "embedding"
    /\ ranked_items' = FirstN(req.allChatSummaries, FallbackItems)
    /\ Conclude(req, ranked_items')
    /\ embed_ended' = "raised"
    /\ UNCHANGED <<req, embed_calls, beyondSidebar>>

InitSidebar ==
    /\ op = "chat"
    /\ provider = ConfiguredProvider("", <<>>)
    /\ model = None
    /\ json_mode = TRUE
    /\ RouterIdle
    /\ BuildIdle
    /\ SidebarIdle
    /\ RestIdle

NextSidebar ==
    \/ SidebarRefresh
    \/ EmbedReturns
    \/ EmbedFails

\* The sidebar-refresh endpoint, for a sample of requests.
SpecSidebar == InitSidebar /\ [][NextSidebar]_vars

(***************************************************************************)
(* Chat results and the callers that write to them.                        *)
(***************************************************************************)
\* The router at rest, no builder run, no sidebar request.
CoreIdle ==
    /\ op = "chat"
    /\ provider = ConfiguredProvider("", <<>>)
    /\ model = None
    /\ json_mode = TRUE
    /\ RouterIdle
    /\ BuildIdle
    /\ SidebarIdle

\* A json_mode chat whose text cannot be parsed returns _fallback_response.
FallbackReturned ==
    /\ Len(handed) < MaxCalls
    /\ \E raw \in {SegQuote, SegResponse} :
        /\ handed' = Append(handed, FallbackRefs(raw))
        /\ seen' = Append(seen, View(FallbackRefs(raw), topics, concepts))
    /\ UNCHANGED <<topics, concepts, touched, beyondShare>>

\* A json_mode chat whose text is a JSON object returns the parsed object.
ParsedReturned ==
    /\ Len(handed) < MaxCalls
    /\ LET i == Len(handed) + 1
       IN  /\ topics' = [topics EXCEPT ![i] = ParsedTopic]
           /\ concepts' = [concepts EXCEPT ![i] = <<<<"c">>>>]
           /\ handed' = Append(handed, ParsedRefs(i))
           /\ seen' = Append(seen, View(ParsedRefs(i), topics', concepts'))
    /\ UNCHANGED <<touched, beyondShare>>

\* A caller assigns result["topic"]["name"].
CallerRenamesTopic ==
    /\ \E i \in 1..Len(handed) :
        /\ topics' = [topics EXCEPT ![handed[i].topic].name = <<"x">>]
        /\ touched' = touched \cup {i}
    /\ UNCHANGED <<concepts, handed, seen, beyondShare>>

\* A caller appends to result["concepts"].
CallerAppendsConcept ==
    /\ \E i \in 1..Len(handed) :
        /\ Len(concepts[handed[i].concepts]) < MaxConcepts
        /\ concepts' = [concepts EXCEPT ![handed[i].concepts] = Append(@, <<"x">>)]
        /\ touched' = touched \cup {i}
    /\ UNCHANGED <<topics, handed, seen, beyondShare>>

InitShare ==
    /\ CoreIdle
    /\ ShareIdle
    /\ ConfigFixed
    /\ RankFixed
    /\ EmbedFixed
    /\ SseIdle
    /\ UpdIdle
    /\ SrchFixed

NextShare ==
    \/ FallbackReturned
    \/ ParsedReturned
    \/ CallerRenamesTopic
    \/ CallerAppendsConcept

\* Chat calls that return, and callers that change what they were handed.
SpecShare == InitShare /\ [][NextShare]_vars

(***************************************************************************)
(* Construction, changes of the environment, and calls.                    *)
(***************************************************************************)
\* llm = LLMRouter() and embedder = EmbeddingService(), each with or without
\* a provider argument.
Construct ==
    /\ services = NoServices
    /\ \E chat_arg \in {"", "gemini"}, embed_arg \in {"", "openai"} :
        services' = [chat |-> ConfiguredProvider(chat_arg, environ.LLM_PROVIDER),
                     embed |-> EmbeddingProvider(embed_arg, environ)]
    /\ constructed' = environ
    /\ UNCHANGED <<environ, used, beyondConfig>>

\* The environment changes after the construction.
SetEnv ==
    /\ services # NoServices
    /\ \E env \in Environments :
        /\ \E name \in DOMAIN env :
              env = [environ EXCEPT ![name] = env[name]] /\ env # environ
        /\ environ' = env
    /\ UNCHANGED <<constructed, services, used, beyondConfig>>

\* A chat or chat_stream call for a model id without a known prefix creates
\* the client of the configured provider.
ChatCreatesClient ==
    /\ services # NoServices
    /\ Len(used) < MaxUses
    /\ ResolveProvider(services.chat, ModelClaude) \in KnownProviders
    /\ used' = Append(used, ClientOf("chat", ResolveProvider(services.chat, ModelClaude),
                                     environ))
    /\ UNCHANGED <<environ, constructed, services, beyondConfig>>

\* An embed_text call creates the client of the configured provider.
EmbedCreatesClient ==
    /\ services # NoServices
    /\ Len(used) < MaxUses
    /\ services.embed \in KnownProviders
    /\ used' = Append(used, ClientOf("embed", services.embed, environ))
    /\ UNCHANGED <<environ, constructed, services, beyondConfig>>

InitConfig ==
    /\ CoreIdle
    /\ ShareIdle
    /\ ConfigIdle
    /\ RankFixed
    /\ EmbedFixed
    /\ SseIdle
    /\ UpdIdle
    /\ SrchFixed

NextConfig ==
    \/ Construct
    \/ SetEnv
    \/ ChatCreatesClient
    \/ EmbedCreatesClient

\* The services in an environment that changes.
SpecConfig == InitConfig /\ [][NextConfig]_vars

(***************************************************************************)
(* Ranking.                                                                *)
(***************************************************************************)
\* A caller passes its query and its candidate list to rank_by_similarity.
RankCandidates ==
    /\ rank_pc = "idle"
    /\ \E call \in {RankCall(rank_query, rank_kept)} :
        /\ rank_out' = call.output
        /\ rank_kept' = call.candidates
    /\ rank_pc' = "ranked"
    /\ UNCHANGED <<rank_query, rank_given, rank_again, beyondRank>>

\* The caller passes the same query and the same list a second time.
RankAgain ==
    /\ rank_pc = "ranked"
    /\ \E call \in {RankCall(rank_query, rank_kept)} :
        /\ rank_again' = call.output
        /\ rank_kept' = call.candidates
    /\ rank_pc' = "twice"
    /\ UNCHANGED <<rank_query, rank_given, rank_out, beyondRank>>

InitRank ==
    /\ CoreIdle
    /\ ShareIdle
    /\ ConfigFixed
    /\ RankIdle
    /\ EmbedFixed
    /\ SseIdle
    /\ UpdIdle
    /\ SrchFixed

NextRank ==
    \/ RankCandidates
    \/ RankAgain

\* rank_by_similarity on every query and every candidate list of the bounds.
SpecRank == InitRank /\ [][NextRank]_vars

(***************************************************************************)
(* Embedding a text.                                                       *)
(***************************************************************************)
EmbedProviderArgs == {"", "openai", "gemini", "cohere", "OpenAI"}

EmbedProviderEnvs == {<<>>, <<"gemini">>, <<"voyage">>}

EmbedTexts == {<<>>, UserText, AssistantText}

\* embed_text(text), a call after the one before has ended: the dispatch on self.provider, up to the await of the
\* adapter or to the raise of line 18.
EmbedText ==
    /\ embed_pc \in {"idle", "done", "failed"}
    /\ Len(embed_asked) < MaxEmbeds
    /\ \E text \in EmbedTexts :
        /\ embed_asked' = Append(embed_asked, text)
        /\ IF EmbedDispatch(embed_provider) = <<>>
           THEN /\ embed_error' = <<UnknownProvider(embed_provider)>>
                /\ embed_pc' = "failed"
                /\ UNCHANGED embed_sent
           ELSE /\ embed_sent' = Append(embed_sent,
                                        EmbeddingCall(EmbedDispatch(embed_provider)[1], text))
                /\ embed_error' = <<>>
                /\ embed_pc' = "awaiting"
    /\ embed_result' = <<>>
    /\ UNCHANGED <<embed_provider, embed_raised, beyondEmbed>>

\* The provider answers: the adapter returns the embedding of the response.
EmbeddingReturns ==
    /\ embed_pc = "awaiting"
    /\ \E v \in Vectors : embed_result' = <<v>>
    /\ embed_pc' = "done"
    /\ UNCHANGED <<embed_provider, embed_asked, embed_sent, embed_raised, embed_error,
                   beyondEmbed>>

\* The provider call raises: neither the adapter nor embed_text catches.
EmbeddingFails ==
    /\ embed_pc = "awaiting"
    /\ \E e \in ProviderErrors :
        /\ embed_raised' = Append(embed_raised, e)
        /\ embed_error' = OnEmbeddingError(e).error
        /\ embed_pc' = OnEmbeddingError(e).pc
    /\ UNCHANGED <<embed_provider, embed_asked, embed_sent, embed_result, beyondEmbed>>

InitEmbed ==
    /\ CoreIdle
    /\ ShareIdle
    /\ ConfigFixed
    /\ RankFixed
    /\ \E arg \in EmbedProviderArgs, env \in EmbedProviderEnvs :
          embed_provider = EmbeddingProvider(arg, [EMBEDDING_PROVIDER |-> env])
    /\ EmbedIdle
    /\ SseIdle
    /\ UpdIdle
    /\ SrchFixed

NextEmbed ==
    \/ EmbedText
    \/ EmbeddingReturns
    \/ EmbeddingFails

\* One embed_text call of an EmbeddingService, whatever its configuration.
SpecEmbed == InitEmbed /\ [][NextEmbed]_vars

(***************************************************************************)
(* The streaming chat endpoint.                                            *)
(***************************************************************************)
MsgsTwo ==
    <<[role |-> UserText, content |-> <<"h", "i">>],
      [role |-> AssistantText, content |-> <<"y", "o">>],
      [role |-> UserText, content |-> <<"?">>]>>

StreamRequests ==
    {[messages |-> m, model |-> md] :
        m \in {MsgsNone, MsgsHi, MsgsTwo}, md \in {None, ModelGpt}}

\* The deltas llm.chat_stream yields: texts that are not empty.
Deltas == {<<"a">>, <<"b", "c">>}

\* str(e) of what llm.chat_stream raises.
StreamErrors == {<<>>, <<"b", "o", "o", "m">>}

\* A request arrives, and the response starts to iterate event_generator.
SseRequest ==
    /\ sse_pc = "idle"
    /\ \E request \in StreamRequests : sse_req' = request
    /\ sse_pc' = "streaming"
    /\ UNCHANGED <<sse_stream, sse_parts, sse_events, sse_meta, sse_got, beyondSse>>

\* Lines 153-161: the router stream yields a delta.
SseChunk ==
    /\ sse_pc = "streaming"
    /\ Len(sse_parts) < MaxChunks
    /\ \E chunk \in Deltas :
        /\ sse_stream' = [sse_stream EXCEPT !.deltas = Append(@, chunk)]
        /\ sse_parts' = Append(sse_parts, chunk)
        /\ sse_events' = Append(sse_events, ChunkEvent(chunk))
    /\ UNCHANGED <<sse_pc, sse_req, sse_meta, sse_got, beyondSse>>

\* Lines 162-164: the router stream raises.
SseStreamFails ==
    /\ sse_pc = "streaming"
    /\ \E e \in StreamErrors :
        /\ sse_stream' = [sse_stream EXCEPT !.ended = "raised", !.error = e]
        /\ sse_events' = sse_events \o OnStreamError(e).events
        /\ sse_pc' = OnStreamError(e).pc
    /\ UNCHANGED <<sse_req, sse_parts, sse_meta, sse_got, beyondSse>>

\* Lines 166-175: the router stream is exhausted; the prompt is formatted
\* and the metadata call is issued.  A format that raises is caught at line
\* 176.
SseStreamCompletes ==
    /\ sse_pc = "streaming"
    /\ sse_stream' = [sse_stream EXCEPT !.ended = "exhausted"]
    /\ LET full_response == Concat(sse_parts)
           meta_prompt == Format(CHAT_METADATA_PROMPT, [topics_json |-> JsonDumps(<<>>)])
       IN  IF meta_prompt.raised = "none"
           THEN /\ sse_meta' = Append(sse_meta,
                                      MetaCall(sse_req, meta_prompt.prompt, full_response))
                /\ sse_pc' = "meta"
                /\ UNCHANGED sse_events
           ELSE /\ sse_events' = sse_events \o AfterMeta(MetaRaised, full_response).events
                /\ sse_pc' = AfterMeta(MetaRaised, full_response).pc
                /\ UNCHANGED sse_meta
    /\ UNCHANGED <<sse_req, sse_parts, sse_got, beyondSse>>

\* Lines 173-179: the metadata call ends, and the generator with it.
SseMetaEnds ==
    /\ sse_pc = "meta"
    /\ \E outcome \in MetaOutcomes :
        /\ sse_got' = <<outcome>>
        /\ \E after \in {AfterMeta(outcome, Concat(sse_parts))} :
            /\ sse_events' = sse_events \o after.events
            /\ sse_pc' = after.pc
    /\ UNCHANGED <<sse_req, sse_stream, sse_parts, sse_meta, beyondSse>>

InitSse ==
    /\ CoreIdle
    /\ ShareIdle
    /\ ConfigFixed
    /\ RankFixed
    /\ EmbedFixed
    /\ SseIdle
    /\ UpdIdle
    /\ SrchFixed

NextSse ==
    \/ SseRequest
    \/ SseChunk
    \/ SseStreamFails
    \/ SseStreamCompletes
    \/ SseMetaEnds

\* One request to /api/chat/stream.
SpecSse == InitSse /\ [][NextSse]_vars

(***************************************************************************)
(* The status-update endpoint's state machine.                             *)
(***************************************************************************)
TopicNames == {TopicName, <<"G", "o">>}

RecentSummaryLists == {<<>>, <<<<"s", "1">>>>, <<<<"s", "1">>, <<"s", "2">>>>, <<<<>>>>}

UpdateRequests ==
    {[topicName |-> n, currentStatus |-> s, recentSummaries |-> r, model |-> md] :
        n \in TopicNames, s \in TopicStatuses, r \in RecentSummaryLists,
        md \in {None, ModelGpt}}

\* POST /api/topic/status: one request, from its arrival to its end.
UpdateTopicStatus ==
    /\ upd_count < MaxUpdates
    /\ \E request \in UpdateRequests :
        \E ending \in UpdateEndings(request) :
            /\ upd_req' = request
            /\ upd_pc' = ending.pc
            /\ upd_error' = ending.error
            /\ upd_calls' = ending.calls
            /\ upd_returned' = ending.returned
            /\ upd_result' = ending.result
            /\ upd_count' = upd_count + 1
    /\ UNCHANGED beyondUpd

InitUpd ==
    /\ CoreIdle
    /\ ShareIdle
    /\ ConfigFixed
    /\ RankFixed
    /\ EmbedFixed
    /\ SseIdle
    /\ UpdIdle
    /\ SrchFixed

NextUpd == UpdateTopicStatus

\* The status-update endpoint serving a few requests.
SpecUpd == InitUpd /\ [][NextUpd]_vars

(***************************************************************************)
(* The state machine of the provider request.                              *)
(***************************************************************************)
SearchArgs ==
    {[op |-> o, model |-> m, json_mode |-> j, use_search |-> u] :
        o \in {"chat", "chat_stream"}, m \in Models \cup {ModelGemini3},
        j \in BOOLEAN, u \in BOOLEAN}

\* chat or chat_stream is called and runs up to the provider call.
SearchCall ==
    /\ srch_pc = "idle"
    /\ \E args \in SearchArgs :
        /\ args.op = "chat_stream" => ~args.json_mode
        /\ srch_args' = args
        /\ LET d == SearchDispatch(srch_provider, args)
           IN  /\ srch_pc' = d.pc
               /\ srch_error' = d.error
               /\ srch_request' = d.request
    /\ UNCHANGED <<srch_provider, beyondSrch>>

InitSrch ==
    /\ CoreIdle
    /\ ShareIdle
    /\ ConfigFixed
    /\ RankFixed
    /\ EmbedFixed
    /\ SseIdle
    /\ UpdIdle
    /\ \E arg \in ProviderArgs, env \in ProviderEnvs :
            srch_provider = ConfiguredProvider(arg, env)
    /\ SrchIdle

NextSrch == SearchCall

\* One call of the router, for every configuration and argument sample.
SpecSrch == InitSrch /\ [][NextSrch]_vars

(***************************************************************************)
(* Properties of the recovery pipeline, under SpecRecover.                 *)
(***************************************************************************)
\* C1: once the provider call of a json_mode chat has returned, whatever its
\* text, chat completes with a result; no parse failure reaches the caller.
C1_JsonModeAlwaysReturns ==
    (op = "chat" /\ json_mode /\ parsed.status # "not run")
        => (pc = "completed" /\ error = "none" /\ result # NoResult)

C1_Witness ==
    /\ pc = "completed"
    /\ json_mode
    /\ target = "openai"
    /\ parsed.status = "unparseable"

\* The strategy the specification describes: the fence interior first, then
\* the trimmed whole string, then the greedy brace span of the string.
ClaimedParse(text) ==
    LET t == Strip(text)
        fm == FenceSearch(t)
        fenced == IF fm.found THEN JsonLoads(Strip(fm.group)) ELSE ParseError
        whole == JsonLoads(t)
        bm == BraceSearch(t)
        span == IF bm.found THEN JsonLoads(bm.group) ELSE ParseError
    IN  IF fenced.ok THEN fenced
        ELSE IF whole.ok THEN whole
        ELSE span

\* C4: _extract_json succeeds exactly when one of the three strategies (fence
\* interior, trimmed whole string, greedy brace span of the string) succeeds,
\* and returns the value of the first that does; so a text whose trimmed
\* whole is valid JSON is parsed.
C4_ThreeStrategies ==
    parsed.status \in {"ok", "unparseable"} =>
        LET claimed == ClaimedParse(Content(reply))
        IN  /\ (parsed.status = "ok") = claimed.ok
            /\ claimed.ok => parsed.value = claimed.value

IsMapping(v) == IF "kind" \in DOMAIN v THEN v.kind = "object" ELSE TRUE

\* C6: whatever _extract_json returns is a JSON object, so a json_mode chat
\* hands its caller a mapping.
C6_AlwaysMapping ==
    /\ parsed.status = "ok" => parsed.value.kind = "object"
    /\ (pc = "completed" /\ json_mode) => IsMapping(result)

(***************************************************************************)
(* Properties of the router, under SpecRouter.                             *)
(***************************************************************************)
\* C2: a model id that starts with gpt- resolves to OpenAI, otherwise one
\* that starts with gemini- resolves to Gemini, and one with neither prefix
\* resolves to the configured provider, whatever that provider is.
C2_PrefixFirst ==
    pc # "idle" =>
        LET m == EffectiveModel(model)
            gpt == StartsWith(m, <<"g", "p", "t", "-">>)
            gemini == StartsWith(m, <<"g", "e", "m", "i", "n", "i", "-">>)
        IN  /\ gpt => target = "openai"
            /\ (~gpt /\ gemini) => target = "gemini"
            /\ (~gpt /\ ~gemini) => target = provider

C2_Witness ==
    /\ pc # "idle"
    /\ model = ModelGpt
    /\ provider = "gemini"
    /\ target = "openai"

\* The model id in effect has neither prefix and the configured provider is
\* neither openai nor gemini.
Unroutable ==
    LET m == EffectiveModel(model)
    IN  /\ ~StartsWith(m, <<"g", "p", "t", "-">>)
        /\ ~StartsWith(m, <<"g", "e", "m", "i", "n", "i", "-">>)
        /\ provider \notin {"openai", "gemini"}

\* C3: chat and chat_stream fail with the unroutable-model error exactly when
\* the model id in effect has neither prefix and the configured provider is
\* neither openai nor gemini; then no provider call is issued and no chunk is
\* yielded; a parse failure never produces this error.
C3_UnroutableIff ==
    /\ pc # "idle" => ((error = "UnroutableModel") <=> Unroutable)
    /\ Unroutable => (calls = <<>> /\ received = <<>> /\ yielded = <<>>)
    /\ parsed.status \in {"empty", "unparseable"} => error # "UnroutableModel"

C3_Witness ==
    /\ op = "chat_stream"
    /\ pc = "failed"
    /\ error = "UnroutableModel"
    /\ model = ModelGptNoDash

\* C8: a chat invocation issues at most one provider call; a failed call
\* fails the invocation with that single call issued, to the resolved
\* provider and to no other.
C8_NoRetry ==
    op = "chat" =>
        /\ Len(calls) <= 1
        /\ \A i \in 1..Len(calls) : calls[i].provider = target
        /\ error = "ProviderError" => (pc = "failed" /\ Len(calls) = 1)

C8_Witness ==
    /\ op = "chat"
    /\ pc = "failed"
    /\ error = "ProviderError"
    /\ Len(calls) = 1

\* The text a transport chunk carries, None when it carries none.
ChunkText(adapter, chunk) ==
    IF adapter = "gemini" THEN chunk.text
    ELSE IF chunk.choices = <<>> THEN None
    ELSE IF chunk.choices[1].delta = <<>> THEN None
    ELSE chunk.choices[1].delta[1].content

\* The texts of the chunks that carry a non-empty text, in order.
RECURSIVE NonEmptyTexts(_, _)
NonEmptyTexts(adapter, chunks) ==
    IF chunks = <<>> THEN <<>>
    ELSE LET t == ChunkText(adapter, Head(chunks))
         IN  (IF t = None \/ t = <<>> THEN <<>> ELSE <<t>>)
                \o NonEmptyTexts(adapter, Tail(chunks))

\* C9: the deltas chat_stream has yielded are the texts of the chunks
\* received so far with the empty, null and choice-less ones removed, in
\* order; no delta is empty.
C9_DeltasAreFiltered ==
    op = "chat_stream" =>
        /\ yielded = NonEmptyTexts(target, received)
        /\ \A i \in 1..Len(yielded) : yielded[i] # None /\ yielded[i] # <<>>

C9_Witness ==
    /\ op = "chat_stream"
    /\ target = "openai"
    /\ pc = "completed"
    /\ Len(received) = MaxChunks
    /\ Len(yielded) = 2
    /\ yielded[1] # yielded[2]

(***************************************************************************)
(* Properties of the request builders, under SpecBuild.                    *)
(***************************************************************************)
\* The attachment parts the built request carries on the turn at position i
\* of the conversation (the OpenAI request has the system turn before it).
AttachmentPartsAt(i) ==
    LET parts == IF builder = "openai" THEN built[i + 1].content.parts
                 ELSE built[i].parts
    IN  SelectSeq(parts, LAMBDA part : part.type # "text")

\* C10: for both adapters, every conversation and every non-empty attachment
\* list, no turn of the built request other than the last carries attachment
\* parts, and the last turn carries them only when its role is user.
C10_OnlyLastUserTurn ==
    (builder # "none" /\ Truthy(attachments)) =>
        \A i \in 1..Len(messages) :
            AttachmentPartsAt(i) # <<>> =>
                (i = Len(messages) /\ heap[messages[i]].role = "user")

\* C11: when the last turn is a user turn, each supplied attachment becomes
\* one part on that turn next to the text part, in both adapters: there are
\* as many attachment parts as attachments, in their order, and an
\* attachment without a MIME type is sent as image/jpeg.
C11_EveryAttachmentSent ==
    (/\ builder # "none"
     /\ Truthy(attachments)
     /\ messages # <<>>
     /\ heap[messages[Len(messages)]].role = "user") =>
        LET parts == AttachmentPartsAt(Len(messages))
        IN  /\ Len(parts) = Len(attachments.items)
            /\ \A k \in 1..Len(parts) :
                  parts[k].mime = MimeOf(attachments.items[k], MimeJpeg)

(***************************************************************************)
(* Properties of the sidebar-refresh endpoint, under SpecSidebar.          *)
(***************************************************************************)
\* C7: in sidebar refresh the three router calls are launched together and
\* joined as a group; whichever of them fail, the endpoint completes without
\* raising, returns the results of the calls that succeeded and puts a
\* neutral placeholder (an empty list, null for the status) in the place of
\* each call that failed.
C7_PartialFailuresTolerated ==
    spc \in {"completed", "failed"} =>
        /\ spc = "completed"
        /\ serror = "none"
        /\ Len(launched) = 3
        /\ outcomes[1].kind = "error" => response.relatedCards = <<>>
        /\ outcomes[2].kind = "error" => response.newDirections = <<>>
        /\ outcomes[3].kind = "error" => response.statusUpdate = NullStatus
        /\ outcomes[1].kind = "dict" =>
              response.relatedCards = Get(outcomes[1].value.relatedCards, <<>>)
        /\ outcomes[2].kind = "dict" =>
              response.newDirections = Get(outcomes[2].value.newDirections, <<>>)
        /\ outcomes[3].kind = "dict" =>
              response.statusUpdate =
                  Assemble(Failure, Failure, outcomes[3]).statusUpdate

(***************************************************************************)
(* Properties of the results chat returns, under SpecShare.                *)
(***************************************************************************)
\* C12: router calls share no mutable state: no two returned results have a
\* part in common, a fallback result is returned with the topic and concepts
\* of the fallback shape, and what a caller writes to one result changes no
\* other result.
C12_NoSharedState ==
    /\ \A i, j \in 1..Len(handed) :
          i # j => (/\ handed[i].topic # handed[j].topic
                    /\ handed[i].concepts # handed[j].concepts)
    /\ \A j \in 1..Len(handed) :
          handed[j].via = "fallback" =>
              (seen[j].topic = FALLBACK.topic /\ seen[j].concepts = FALLBACK.concepts)
    /\ \A j \in 1..Len(handed) :
          j \notin touched => View(handed[j], topics, concepts) = seen[j]

(***************************************************************************)
(* Properties of the configuration, under SpecConfig.                      *)
(***************************************************************************)
\* C13: the provider names and the provider credentials are read once, when
\* the services are constructed: every client created later has the
\* provider and the credential the environment held at construction,
\* whatever the environment has become since.
C13_ConfigReadOnce ==
    /\ services # NoServices =>
          \E chat_arg \in {"", "gemini"}, embed_arg \in {"", "openai"} :
              services = [chat |-> ConfiguredProvider(chat_arg, constructed.LLM_PROVIDER),
                          embed |-> EmbeddingProvider(embed_arg, constructed)]
    /\ \A i \in 1..Len(used) :
          /\ used[i].provider =
                (IF used[i].service = "chat" THEN services.chat ELSE services.embed)
          /\ used[i].api_key = GetEnv(constructed, KeyName(used[i].provider), "None")

(***************************************************************************)
(* Properties of rank_by_similarity, under SpecRank.                       *)
(***************************************************************************)
\* The key embedding of a candidate is present, not None, and not empty.
Embedded(c) ==
    /\ c.embedding # <<>>
    /\ ~c.embedding[1].isNone
    /\ c.embedding[1].items # <<>>

EntriesOf(output, c) == {k \in 1..Len(output) : output[k].id = c.id}

\* C14: the output of rank_by_similarity has exactly one entry for each
\* candidate whose embedding is present, not null and not empty, and none
\* for any other candidate; nothing is cut off, so the output is as long as
\* the number of such candidates.
C14_OneEntryPerEmbedded ==
    rank_pc # "idle" =>
        /\ \A i \in 1..Len(rank_given) :
              Cardinality(EntriesOf(rank_out, rank_given[i])) =
                  (IF Embedded(rank_given[i]) THEN 1 ELSE 0)
        /\ Len(rank_out) =
              Cardinality({i \in 1..Len(rank_given) : Embedded(rank_given[i])})

\* A list with a None embedding, an empty embedding and a vector was ranked.
C14_Witness ==
    /\ rank_pc = "ranked"
    /\ Len(rank_given) = MaxCands
    /\ \E i, j, k \in 1..Len(rank_given) :
        /\ rank_given[i].embedding = <<NoneList>>
        /\ rank_given[j].embedding = <<ListOf(<<>>)>>
        /\ Embedded(rank_given[k])
    /\ Len(rank_out) = 1

\* C15: the output of rank_by_similarity is in non-increasing order of
\* score, and entries with equal scores stand in the order their candidates
\* have in the input list (the candidate at position i has the id i).
C15_DescendingAndStable ==
    rank_pc # "idle" =>
        \A k, l \in 1..Len(rank_out) :
            k < l =>
                /\ ~Less(rank_out[k].score[1], rank_out[l].score[1])
                /\ rank_out[k].score = rank_out[l].score =>
                      rank_out[k].id < rank_out[l].id

\* A ranked list with a tie and with two different scores, whose input was
\* not in descending order.
C15_Witness ==
    /\ rank_pc = "ranked"
    /\ Len(rank_out) = MaxCands
    /\ \E k \in 1..(Len(rank_out) - 1) : rank_out[k].score = rank_out[k + 1].score
    /\ \E k \in 1..(Len(rank_out) - 1) : rank_out[k].id > rank_out[k + 1].id

C17_EntryIsCandidateWithScore ==
    rank_pc # "idle" =>
        \A k \in 1..Len(rank_out) :
            LET candidate == rank_given[rank_out[k].id]
            IN  /\ rank_out[k].score =
                      <<cosine_similarity(rank_query, candidate.embedding[1].items)>>
                /\ \A field \in DOMAIN candidate \ {"score"} :
                      rank_out[k][field] = candidate[field]
                /\ DOMAIN rank_out[k] = DOMAIN candidate

\* The query (3, 4) ranked a candidate with the embedding (1, 0) and a score
\* 1/2 of its own: its entry has the score 3/5 and the title of the candidate.
C17_Witness ==
    /\ rank_pc = "ranked"
    /\ rank_query = <<3, 4>>
    /\ \E k \in 1..Len(rank_out) :
        /\ rank_given[rank_out[k].id].embedding = <<ListOf(<<1, 0>>)>>
        /\ rank_given[rank_out[k].id].score = <<Fraction(1, 2)>>
        /\ rank_out[k].score = <<[num |-> 3, den |-> 5]>>
        /\ rank_out[k].title = <<TopicName>>

IsZeroVector(v) == \A i \in 1..Len(v) : v[i] = 0

\* C18: cosine_similarity returns exactly 0.0 (no raise, no nan, no
\* infinity) when either argument, or both, is a zero vector: an entry whose
\* candidate has a zero embedding has the score 0, and under a zero query
\* every entry has the score 0.
C18_ZeroVectorScoresZero ==
    rank_pc # "idle" =>
        /\ Len(rank_out) =
              Cardinality({i \in 1..Len(rank_given) : Embedded(rank_given[i])})
        /\ \A k \in 1..Len(rank_out) :
              (\/ IsZeroVector(rank_query)
               \/ IsZeroVector(rank_given[rank_out[k].id].embedding[1].items))
                  => rank_out[k].score = <<[num |-> 0, den |-> 1]>>

\* A zero query ranked a zero embedding and a non-zero embedding.
C18_Witness ==
    /\ rank_pc = "ranked"
    /\ IsZeroVector(rank_query)
    /\ \E k, l \in 1..Len(rank_out) :
        /\ rank_given[rank_out[k].id].embedding = <<ListOf(<<0, 0>>)>>
        /\ rank_given[rank_out[l].id].embedding = <<ListOf(<<3, 4>>)>>
        /\ rank_out[k].score = rank_out[l].score

(***************************************************************************)
(* The failures of _extract_json, under SpecRecover.                       *)
(***************************************************************************)
\* C19: _extract_json fails with the empty-response error exactly when its
\* input is empty or holds whitespace only, and then before any parse
\* attempt; every other failing input fails with the unparseable-response
\* error, which shows at most the first ShownChars characters of the text
\* that could not be parsed.
C19_EmptyIffBlank ==
    (op = "chat" /\ json_mode /\ parsed.status # "not run") =>
        LET text == Content(reply)
            offending == Candidate(text)
        IN  /\ parsed.status \in {"ok", "empty", "unparseable"}
            /\ (parsed.status = "empty") =
                  (\A i \in 1..Len(text) : text[i] \in Whitespace)
            /\ parsed.status = "empty" => parsed.tries = 0
            /\ parsed.status = "unparseable" =>
                  /\ parsed.tries >= 1
                  /\ Len(parsed.shown) <= ShownChars
                  /\ parsed.shown = SubSeq(offending, 1, Len(parsed.shown))
                  /\ Len(parsed.shown) < ShownChars => parsed.shown = offending

\* A text that starts with whitespace and has more than ShownChars other
\* characters could not be parsed: its error shows ShownChars of them.
C19_Witness ==
    /\ op = "chat" /\ json_mode
    /\ parsed.status = "unparseable"
    /\ Head(reply) \in Whitespace
    /\ Len(Strip(reply)) > ShownChars
    /\ Len(parsed.shown) = ShownChars
    /\ Head(parsed.shown) = "x"

(***************************************************************************)
(* The failures of embed_text, under SpecEmbed.                            *)
(***************************************************************************)
Supported == embed_provider \in {"openai", "gemini"}

\* C20: embed_text fails with the unknown-provider error exactly when the
\* service is configured for neither openai nor gemini, and then no provider
\* call is issued; with a supported provider every embed_text call issues
\* exactly one embedding call, for its text and to its provider, and a
\* failure of that call reaches the caller as the provider raised it.
C20_UnknownProviderIff ==
    /\ (embed_pc = "failed" /\ embed_error = <<UnknownProvider(embed_provider)>>)
          = (embed_asked # <<>> /\ ~Supported)
    /\ ~Supported => embed_sent = <<>> /\ embed_pc \in {"idle", "failed"}
    /\ Supported =>
          /\ Len(embed_sent) = Len(embed_asked)
          /\ \A i \in 1..Len(embed_sent) :
                /\ embed_sent[i].provider = embed_provider
                /\ embed_sent[i].input = embed_asked[i]
          /\ embed_pc = "failed" =>
                embed_error = <<embed_raised[Len(embed_raised)]>>

\* The second embed_text call of a gemini service failed in the provider.
C20_Witness ==
    /\ embed_provider = "gemini"
    /\ Len(embed_asked) = MaxEmbeds
    /\ embed_pc = "failed"
    /\ embed_error # <<>>
    /\ embed_error[1].type = "ValueError"
    /\ Len(embed_sent) = MaxEmbeds

(***************************************************************************)
(* Properties of the streaming endpoint, under SpecSse.                    *)
(***************************************************************************)
\* The chunk events of a sequence of deltas.
ChunkEvents(deltas) == [i \in 1..Len(deltas) |-> ChunkEvent(deltas[i])]

EventsOfType(type) == {i \in 1..Len(sse_events) : sse_events[i].type = type}

\* event_generator has returned or raised.
SseOver == sse_pc \in {"ended", "crashed"}

\* C21: when the router stream completes without failing, the events are one
\* chunk event per delta in delta order, then exactly one done event whose
\* response is the concatenation of the chunk texts; nothing follows it.
C21_ChunksThenOneDone ==
    (SseOver /\ sse_stream.ended = "exhausted") =>
        /\ Len(sse_events) = Len(sse_stream.deltas) + 1
        /\ SubSeq(sse_events, 1, Len(sse_stream.deltas)) = ChunkEvents(sse_stream.deltas)
        /\ sse_events[Len(sse_events)].type = "done"
        /\ sse_events[Len(sse_events)].response = Concat(sse_stream.deltas)

\* C23: when the metadata call returns a list, the endpoint does not crash:
\* the stream ends with exactly one done event, whose topic is the topic of
\* the entry of the list.
C23_ListMetadataTolerated ==
    (sse_got # <<>> /\ sse_got[1].kind = "list") =>
        /\ sse_pc = "ended"
        /\ Cardinality(EventsOfType("done")) = 1
        /\ sse_got[1].entries # <<>> =>
              sse_events[Len(sse_events)].topic =
                  Get(sse_got[1].entries[1].topic, EmptyDict)

\* C25: when the router stream fails, before the first delta or after some,
\* the endpoint emits exactly one error event with the message of the
\* failure after the chunk events already sent, emits no done event, and
\* never issues the metadata call.
C25_StreamFailureGivesOneError ==
    sse_stream.ended = "raised" =>
        /\ sse_pc = "ended"
        /\ sse_events =
              ChunkEvents(sse_stream.deltas)
                  \o <<[type |-> "error", message |-> sse_stream.error]>>
        /\ EventsOfType("done") = {}
        /\ sse_meta = <<>>

\* The stream failed after two deltas.
C25_Witness ==
    /\ sse_stream.ended = "raised"
    /\ Len(sse_stream.deltas) = 2
    /\ sse_stream.error # <<>>
    /\ Len(sse_events) = 3

\* C26: when the stream completes and the metadata call fails, the endpoint
\* still emits exactly one done event, with the whole accumulated text as
\* response, a topic of confidence 0 and no concepts; it emits no error
\* event.
C26_MetadataFailureGivesDone ==
    (sse_got # <<>> /\ sse_got[1].kind = "error") =>
        /\ sse_pc = "ended"
        /\ Cardinality(EventsOfType("done")) = 1
        /\ EventsOfType("error") = {}
        /\ LET done == sse_events[Len(sse_events)]
           IN  /\ done.type = "done"
               /\ done.response = Concat(sse_stream.deltas)
               /\ done.topic.confidence = 0
               /\ done.concepts = <<>>

\* The metadata call failed after a stream of two deltas.
C26_Witness ==
    /\ sse_got = <<MetaRaised>>
    /\ Len(sse_stream.deltas) = 2
    /\ sse_events[Len(sse_events)].type = "done"
    /\ Len(sse_events[Len(sse_events)].response) > 2

\* C27: the metadata call is issued only after the stream has completed and
\* every chunk event has been emitted, at most once for a request, and its
\* conversation is the turns of the request in their order followed by one
\* assistant turn whose content is the accumulated response.
C27_MetadataCallAfterStream ==
    /\ Len(sse_meta) <= 1
    /\ sse_meta # <<>> =>
          /\ sse_stream.ended = "exhausted"
          /\ SubSeq(sse_events, 1, Len(sse_stream.deltas)) = ChunkEvents(sse_stream.deltas)
          /\ sse_meta[1].messages =
                sse_req.messages
                    \o <<[role |-> AssistantText, content |-> Concat(sse_stream.deltas)]>>
          /\ sse_meta[1].model = sse_req.model

\* The metadata call of a request of three turns, issued after two deltas.
C27_Witness ==
    /\ sse_pc = "meta"
    /\ Len(sse_meta) = 1
    /\ Len(sse_req.messages) = 3
    /\ Len(sse_stream.deltas) = 2
    /\ Len(sse_meta[1].messages) = 4

\* C24: every request to the status-update endpoint builds its prompt from
\* the template, calls the router's chat exactly once with a system prompt
\* that holds the request's topic name, and returns the call's result
\* unchanged.
C24_StatusUpdatePromptBuilt ==
    upd_pc # "idle" =>
        /\ upd_error # "KeyError"
        /\ Len(upd_calls) = 1
        /\ upd_calls[1].system_prompt.filled.topic_name = upd_req.topicName
        /\ upd_pc = "completed" => upd_result = upd_returned

\* What the response takes from the result of the status-update call: the
\* whole mapping when it has an overview, else its status text, else null.
StatusFieldOf(outcome) ==
    IF outcome.kind = "dict" /\ outcome.value.overview # <<>>
    THEN [kind |-> "dict", text |-> "", dict |-> outcome.value]
    ELSE IF outcome.kind = "dict" /\ outcome.value.status # <<>>
    THEN [kind |-> "text", text |-> outcome.value.status[1], dict |-> NoKeys]
    ELSE [kind |-> "null", text |-> "", dict |-> NoKeys]

\* C28: in sidebar refresh every request ends with a response whose fields
\* each come from their own call of the three joined calls: relatedCards
\* from the bridge-questions call, newDirections from the new-directions
\* call, statusUpdate from the status-update call.
C28_FieldsFromOwnCall ==
    spc \in {"completed", "failed"} =>
        /\ Len(outcomes) = 3
        /\ response.relatedCards =
              IF outcomes[1].kind = "dict"
              THEN Get(outcomes[1].value.relatedCards, <<>>) ELSE <<>>
        /\ response.newDirections =
              IF outcomes[2].kind = "dict"
              THEN Get(outcomes[2].value.newDirections, <<>>) ELSE <<>>
        /\ response.statusUpdate = StatusFieldOf(outcomes[3])

\* C29: in sidebar refresh embed_text is called at most once for a request,
\* and only when some summary has a non-empty embedding and the query text
\* is not blank; when the call raises, the endpoint does not fail: the
\* ranked items are the first five summaries in their given order and all
\* three router calls are launched.
C29_EmbeddingFailureFallsBack ==
    /\ embed_calls <= 1
    /\ embed_calls = 1 =>
          /\ \E i \in 1..Len(req.allChatSummaries) : HasEmbedding(req.allChatSummaries[i])
          /\ Strip(QueryText(req)) # <<>>
    /\ embed_ended = "raised" =>
          /\ spc = "completed"
          /\ serror = "none"
          /\ ranked_items = FirstN(req.allChatSummaries, FallbackItems)
          /\ Len(launched) = 3

(***************************************************************************)
(* The default model, under SpecRouter.                                    *)
(***************************************************************************)
\* C30: when no model is given, chat and chat_stream call the Gemini adapter
\* with the model gemini-2.5-flash, whatever provider is configured; the
\* configured provider decides the route only for a model id that is given
\* and has neither known prefix: in every other case the route follows from
\* the model argument alone.
C30_DefaultModelGoesToGemini ==
    pc # "idle" =>
        LET given == model # None /\ model # <<>>
            gpt == StartsWith(model, <<"g", "p", "t", "-">>)
            gemini == StartsWith(model, <<"g", "e", "m", "i", "n", "i", "-">>)
        IN  /\ ~given =>
                /\ target = "gemini"
                /\ Len(calls) = 1
                /\ calls[1].provider = "gemini"
                /\ calls[1].model = <<"g", "e", "m", "i", "n", "i", "-", "2", ".", "5",
                                      "-", "f", "l", "a", "s", "h">>
            /\ (given /\ gpt) => target = "openai"
            /\ (given /\ ~gpt /\ gemini) => target = "gemini"
            /\ target \notin {"openai", "gemini"} => (given /\ ~gpt /\ ~gemini)

C30_Witness ==
    /\ pc # "idle"
    /\ model = None
    /\ provider = "openai"
    /\ target = "gemini"
    /\ calls = <<Call("gemini", DEFAULT_MODEL)>>

(***************************************************************************)
(* The web-search flag, under SpecSrch.                                    *)
(***************************************************************************)
\* C22: the request of the Gemini adapter carries exactly one tool, the
\* web search, when use_search is true and no tool when it is false, in
\* chat and in chat_stream; the OpenAI adapter ignores the flag: the call
\* does not fail, its request has no tool and is the request it sends for
\* the same arguments with use_search false.
C22_SearchToolOnlyForGemini ==
    srch_pc # "idle" =>
        /\ (srch_request # <<>> /\ srch_request[1].adapter = "gemini") =>
              LET config == srch_request[1].config
              IN  IF srch_args.use_search
                  THEN /\ config.tools # <<>>
                       /\ Len(config.tools[1]) = 1
                       /\ config.tools[1][1] = [google_search |-> "GoogleSearch"]
                  ELSE config.tools = <<>>
        /\ ResolveProvider(srch_provider, EffectiveModel(srch_args.model)) = "openai" =>
              /\ srch_pc = "sent"
              /\ srch_error = "none"
              /\ srch_request # <<>>
              /\ srch_request[1].adapter = "openai"
              /\ "tools" \notin DOMAIN srch_request[1]
              /\ \A u \in BOOLEAN :
                    srch_request =
                        SearchDispatch(srch_provider,
                                       [srch_args EXCEPT !.use_search = u]).request

C22_Witness ==
    /\ srch_pc = "sent"
    /\ srch_args.op = "chat_stream"
    /\ srch_args.use_search
    /\ srch_request[1].adapter = "gemini"
    /\ srch_request[1].config.tools = <<<<GoogleSearchTool>>>>

====
